---- MODULE Spec2Model ----
(***************************************************************************)
(* Verification model of new-pywallet: the passphrase search engine        *)
(* (wallet_brute_force.py), the pattern scanners (recovery.py), the        *)
(* passphrase cipher (crypto/aes.py), the key codec (crypto/keys.py,       *)
(* crypto/base58.py) and the wallet record store (db/wallet.py).           *)
(*                                                                         *)
(* Every subsystem has its own variables and its own specification; a      *)
(* specification keeps the variables of the other subsystems at their      *)
(* idle values.                                                            *)
(***************************************************************************)
EXTENDS Integers, Sequences, FiniteSets, Bags, TLC

VARIABLES
    \* ---- passphrase search engine (wallet_brute_force.py) ----
    bf_pc,              \* position of the coordinating process
    bf_mode,            \* "exhaustive" | "smart" | "wordlist"
    bf_charset,         \* charset, a sequence of characters
    bf_min_length,      \* min_length (rewritten by a checkpoint resume)
    bf_max_length,      \* max_length
    bf_processes,       \* processes
    bf_max_consecutive, \* max_consecutive
    bf_checkpoint,      \* checkpoint file content found at start, or None
    bf_secret,          \* the passphrase the master key was encrypted with, or None
    bf_wordlist,        \* passwords read from the wordlist file
    bf_queue,           \* batches the candidate generator has still to yield
    bf_batch,           \* password_batch of the batch being processed
    bf_batch_num,       \* batch_num
    bf_futures,         \* futures of the current process_chunk_parallel call
    bf_results,         \* results list of the current process_chunk_parallel call
    bf_attempts,        \* attempts
    bf_found,           \* found_passwords
    bf_tested,          \* bag: check_password calls made by process_chunk, per candidate
    bf_rechecked,       \* bag: check_password calls made by the coordinator's double-check
    bf_ret,             \* return value of the engine
    \* ---- pattern scanners (recovery.py) ----
    sc_pc,              \* "idle" | "scan" | "done" | "failed"
    sc_engine,          \* "scan_file" | "find_patterns"
    sc_file,            \* content of the scanned file, a sequence of bytes
    sc_size,            \* start_offset + max_size / size: where the scan ends
    sc_planted,         \* the signature planted in the file: its kind and offset
    sc_offset,          \* offset / i: start of the next chunk
    sc_blocks,          \* BlocksToInspect of find_patterns
    sc_results,         \* results / AllOffsets: the offsets reported per kind
    sc_errors,          \* number of reads that failed
    sc_skipped,         \* offsets of the chunks whose read raised
    \* ---- passphrase cipher (crypto/aes.py) ----
    aes_op,             \* the last call: "none" | "encrypt" | "decrypt"
    aes_key,            \* its key
    aes_data,           \* its data / encrypted_data
    aes_plain,          \* decrypted_data before the padding is removed
    aes_prev,           \* key and data of the encrypt_aes call whose output was decrypted
    aes_out,            \* what the call returned or raised
    \* ---- key codec (crypto/keys.py, crypto/base58.py) ----
    wif_op,             \* the last call: "none" | "encode" | "decode" | "decode_payload"
    wif_key,            \* private_key of the private_key_to_wif call
    wif_compressed,     \* compressed of the private_key_to_wif call
    wif_network,        \* network['wif'] of the last call
    wif_str,            \* the WIF string returned or handed in
    wif_mangled,        \* the string decoded is not the one encoded for this network
    wif_out,            \* what wif_to_private_key returned or raised
    \* ---- Base58 codec and validators (crypto/base58.py, crypto/keys.py) ----
    b58_op,             \* the last call: "none" | "b58encode" | "b58decode" | ...
    b58_data,           \* data of the b58encode call
    b58_in,             \* the string handed in, and how it was made
    b58_network,        \* network of the validator call
    b58_out,            \* what the call returned or raised
    \* ---- wallet record store (db/wallet.py) ----
    w_op,               \* the last call: "none" | "open" | "import_key" | ...
    w_db,               \* the records of the wallet file: key -> value
    w_tmp,              \* the stores in the shared tmp_dir: file name -> records
    w_puts,             \* the puts the last call made, in order
    w_ret,              \* what the last call returned or raised
    w_json,             \* json_db
    w_args,             \* arguments of the last call
    w_nops,             \* calls made on the open wallet
    \* ---- BCDataStream (utils/datastream.py) ----
    ds_op,              \* the last call: "none" | "clear" | "write" | "read_bytes" | ...
    ds_input,           \* self.input: None or the bytes written
    ds_read_cursor,     \* self.read_cursor
    ds_before,          \* self.read_cursor when the last call began
    ds_length,          \* the length asked of read_bytes
    ds_out,             \* what the last call returned or raised
    ds_ncalls,          \* calls made on the stream
    \* ---- master key verification (wallet_brute_force.py, recovery.py) ----
    mk_op,              \* the last call: "none" | "check_password" | "decrypt"
    mk_encrypted_key,   \* encrypted_key of the mkey record
    mk_salt,            \* its salt
    mk_iterations,      \* its nDeriveIterations
    mk_password,        \* the passphrase tried
    mk_decrypted,       \* what cipher.decrypt returned in check_password, or None
    mk_out,             \* what check_password returned or raised
    mk_master,          \* what RecoveredMasterKey.decrypt returned or raised
    \* ---- WalletDB handle (db/wallet.py) ----
    h_op,               \* the last call: "none" | "open" | "close" | "read_wallet"
    h_db,               \* self.db: "None", a DB object whose open failed, or an open DB
    h_db_env,           \* self.db_env: "None", or a DBEnv object, opened or not
    h_exists,           \* what os.path.exists(self.wallet_path) returned in the last open
    h_opens,            \* calls of DB.open made so far
    h_ret,              \* what the last call returned or raised
    h_ncalls            \* calls made on the handler

bfVars == <<bf_pc, bf_mode, bf_charset, bf_min_length, bf_max_length, bf_processes,
            bf_max_consecutive, bf_checkpoint, bf_secret, bf_wordlist, bf_queue, bf_batch,
            bf_batch_num, bf_futures, bf_results, bf_attempts, bf_found, bf_tested,
            bf_rechecked, bf_ret>>

scVars == <<sc_pc, sc_engine, sc_file, sc_size, sc_planted, sc_offset, sc_blocks,
            sc_results, sc_errors, sc_skipped>>

aesVars == <<aes_op, aes_key, aes_data, aes_plain, aes_prev, aes_out>>

wifVars == <<wif_op, wif_key, wif_compressed, wif_network, wif_str, wif_mangled, wif_out>>
b58Vars == <<b58_op, b58_data, b58_in, b58_network, b58_out>>
wVars == <<w_op, w_db, w_tmp, w_puts, w_ret, w_json, w_args, w_nops>>
dsVars == <<ds_op, ds_input, ds_read_cursor, ds_before, ds_length, ds_out, ds_ncalls>>

mkVars == <<mk_op, mk_encrypted_key, mk_salt, mk_iterations, mk_password, mk_decrypted,
            mk_out, mk_master>>

hVars == <<h_op, h_db, h_db_env, h_exists, h_opens, h_ret, h_ncalls>>

vars == <<bfVars, scVars, aesVars, wifVars, b58Vars, wVars, dsVars, mkVars, hVars>>

\* Python's Optional: None is the empty sequence, a value x is <<x>>
None == <<>>
Some(x) == <<x>>
Get(opt) == opt[1]

(***************************************************************************)
(* Bounds of the model.                                                    *)
(***************************************************************************)
\* longest candidate length (max_passwd)
MaxLen == 2
\* batch_size / chunk_size: 5000..10000 in the source, scaled down
BatchSize == 8
\* floor of optimal_chunk_size: 100 in the source, scaled down
MinSubChunk == 5
\* largest worker pool
MaxProcesses == 2
\* largest max_consecutive
MaxConsecutive == 2
\* how many entries of common_prefixes, common_suffixes and of the middle
\* characters the smart generator uses (10 each in the source)
MaxPatterns == 2

(***************************************************************************)
(* Sequence helpers.                                                       *)
(***************************************************************************)
Min(a, b) == IF a < b THEN a ELSE b
\* the element of a one-element set
the(S) == CHOOSE x \in S : TRUE
Max(a, b) == IF a > b THEN a ELSE b

RECURSIVE Pow(_, _)
Pow(b, e) == IF e = 0 THEN 1 ELSE b * Pow(b, e - 1)

RECURSIVE Flatten(_)
Flatten(ss) == IF ss = <<>> THEN <<>> ELSE Head(ss) \o Flatten(Tail(ss))

RECURSIVE Repeat(_, _)
\* Python's  s * n  on sequences
Repeat(s, n) == IF n <= 0 THEN <<>> ELSE s \o Repeat(s, n - 1)

Elems(s) == {s[i] : i \in 1..Len(s)}

RECURSIVE BagOfSeq(_)
BagOfSeq(s) == IF s = <<>> THEN EmptyBag ELSE SetToBag({Head(s)}) (+) BagOfSeq(Tail(s))

RECURSIVE SumLens(_)
SumLens(ss) == IF ss = <<>> THEN 0 ELSE Len(Head(ss)) + SumLens(Tail(ss))

(***************************************************************************)
(* wallet_brute_force.py: candidate generation.                             *)
(***************************************************************************)
RECURSIVE consecutive_scan(_, _, _, _, _)
\* the loop of has_too_many_consecutive_chars over password[i..]
consecutive_scan(password, i, current_char, count, max_consecutive) ==
    IF i > Len(password) THEN FALSE
    ELSE IF password[i] = current_char
         THEN IF count + 1 > max_consecutive THEN TRUE
              ELSE consecutive_scan(password, i + 1, current_char, count + 1, max_consecutive)
         ELSE consecutive_scan(password, i + 1, password[i], 1, max_consecutive)

\* the filter that already rejects a run of max_consecutive characters
has_too_many_consecutive_chars_at_limit(password, max_consecutive) ==
    IF max_consecutive <= 0 THEN FALSE
    ELSE IF Len(password) <= 1 THEN FALSE
    ELSE consecutive_scan(password, 2, password[1], 1, max_consecutive - 1)

has_too_many_consecutive_chars(password, max_consecutive) ==
    IF max_consecutive <= 0 THEN FALSE
    ELSE IF Len(password) <= 1 THEN FALSE
    ELSE consecutive_scan(password, 2, password[1], 1, max_consecutive)

\* itertools.product(charset, repeat=length), in the order it yields
product(charset, length) ==
    LET n == Len(charset) IN
    [k \in 1..Pow(n, length) |->
        [p \in 1..length |-> charset[(((k - 1) \div Pow(n, length - p)) % n) + 1]]]

\* the full chunks chunk_generator yields
full_chunks(items, chunk_size) ==
    [c \in 1..(Len(items) \div chunk_size) |->
        SubSeq(items, (c - 1) * chunk_size + 1, c * chunk_size)]

\* the items left in `chunk` when the stream ends
tail_chunk(items, chunk_size) ==
    SubSeq(items, (Len(items) - (Len(items) % chunk_size)) + 1, Len(items))

\* chunk_generator without its final `if chunk: yield chunk`
chunk_generator_without_tail(items, chunk_size) == full_chunks(items, chunk_size)

chunk_generator(items, chunk_size) ==
    full_chunks(items, chunk_size)
        \o (IF tail_chunk(items, chunk_size) # <<>>
            THEN <<tail_chunk(items, chunk_size)>> ELSE <<>>)

\* common_chars, most to least common
common_chars ==
    <<"a","e","o","r","i","s","n","1","t","l","2","m","d","0","c","p","3","h",
      "b","u","k","4","5","g","9","6","8","7","y","j","f","v","z","x","w","q">>

common_prefixes ==
    << <<"a">>, <<"p">>, <<"s">>, <<"1">>, <<"2">>, <<"m">>, <<"t">>, <<"b">>, <<"d">>, <<"h">> >>

common_suffixes ==
    << <<"1">>, <<"1","2","3">>, <<"2">>, <<"a">>, <<"0">>, <<"1","2">>, <<"3">>, <<"4">>,
       <<"5">>, <<"!">> >>

\* the entries of a pattern list the model uses
used(list) == SubSeq(list, 1, Min(MaxPatterns, Len(list)))

\* max_consecutive <= 0 or not has_too_many_consecutive_chars(password, max_consecutive)
passes_filter(password, max_consecutive) ==
    max_consecutive <= 0 \/ ~has_too_many_consecutive_chars(password, max_consecutive)

\* candidates the prefix/suffix loops append for one (prefix, suffix) pair
prefix_suffix_pair(prefix, suffix, length, max_consecutive) ==
    IF Len(prefix) + Len(suffix) > length THEN <<>>
    ELSE LET middle_len == (length - Len(prefix)) - Len(suffix)
             middles == used(SubSeq(common_chars, 1, Min(10, Len(common_chars))))
         IN IF middle_len = 0
            THEN IF passes_filter(prefix \o suffix, max_consecutive)
                 THEN <<prefix \o suffix>> ELSE <<>>
            ELSE Flatten([m \in 1..Len(middles) |->
                    LET password == prefix \o Repeat(<<middles[m]>>, middle_len) \o suffix
                    IN IF passes_filter(password, max_consecutive)
                       THEN <<password>> ELSE <<>>])

prefix_suffix_patterns(length, max_consecutive) ==
    Flatten([i \in 1..Len(used(common_prefixes)) |->
        Flatten([j \in 1..Len(used(common_suffixes)) |->
            prefix_suffix_pair(used(common_prefixes)[i], used(common_suffixes)[j],
                               length, max_consecutive)])])

\* repeating characters ("aaaaaa")
repeated_patterns(charset, length, max_consecutive) ==
    Flatten([i \in 1..Len(charset) |->
        IF max_consecutive <= 0 \/ length <= max_consecutive
        THEN <<Repeat(<<charset[i]>>, length)>> ELSE <<>>])

\* alternating patterns ("ababab")
alternating_patterns(charset, length, max_consecutive) ==
    Flatten([i \in 1..Len(charset) |->
        Flatten([d \in 1..(Len(charset) - i) |->
            LET j == i + d
                pattern == Repeat(<<charset[i], charset[j]>>, length \div 2)
                              \o (IF length % 2 = 1 THEN <<charset[i]>> ELSE <<>>)
            IN IF passes_filter(pattern, max_consecutive) THEN <<pattern>> ELSE <<>>])])

RECURSIVE append_missing(_, _)
\* for c in charset: if c not in sorted_charset: sorted_charset += c
append_missing(sorted, charset) ==
    IF charset = <<>> THEN sorted
    ELSE append_missing(IF Head(charset) \in Elems(sorted) THEN sorted
                        ELSE Append(sorted, Head(charset)), Tail(charset))

sorted_charset(charset) ==
    append_missing(SelectSeq(common_chars, LAMBDA c : c \in Elems(charset)), charset)

\* the batches smart_password_generator yields.  The list yielded after the
\* pattern phase is not emptied, so its items open the first batch of the
\* fall-back product.
smart_password_generator(charset, length, batch_size, max_consecutive) ==
    LET patterns == prefix_suffix_patterns(length, max_consecutive)
                        \o repeated_patterns(charset, length, max_consecutive)
                        \o alternating_patterns(charset, length, max_consecutive)
        kept == tail_chunk(patterns, batch_size)
    IN chunk_generator(patterns, batch_size)
           \o chunk_generator(kept \o product(sorted_charset(charset), length), batch_size)

\* generator chosen per length by brute_force_generated
length_batches(smart, charset, length, max_consecutive) ==
    IF smart THEN smart_password_generator(charset, length, BatchSize, max_consecutive)
    ELSE chunk_generator(product(charset, length), BatchSize)

RECURSIVE generated_batches(_, _, _, _, _)
\* the batches of the loop over range(min_length, max_length + 1)
generated_batches(smart, charset, min_length, max_length, max_consecutive) ==
    IF min_length > max_length THEN <<>>
    ELSE length_batches(smart, charset, min_length, max_consecutive)
            \o generated_batches(smart, charset, min_length + 1, max_length, max_consecutive)

\* the consecutive-character filter with its `not` left out
password_batch_inverted(batch, max_consecutive) ==
    IF max_consecutive > 0
    THEN SelectSeq(batch, LAMBDA p : has_too_many_consecutive_chars(p, max_consecutive))
    ELSE batch

\* password_batch: the batch with the candidates of too many consecutive characters removed
password_batch(batch, max_consecutive) ==
    IF max_consecutive > 0
    THEN SelectSeq(batch, LAMBDA p : ~has_too_many_consecutive_chars(p, max_consecutive))
    ELSE batch

\* the chunks brute_force_wordlist cuts the passwords into
wordlist_batches(passwords) ==
    [c \in 1..((Len(passwords) + BatchSize - 1) \div BatchSize) |->
        SubSeq(passwords, (c - 1) * BatchSize + 1, Min(c * BatchSize, Len(passwords)))]

(***************************************************************************)
(* wallet_brute_force.py: verification of candidates.                      *)
(***************************************************************************)
\* check_password: the padding, length and entropy checks accept the
\* plaintext of the master key and reject the output of a decryption under a
\* key derived from any other passphrase.
check_password(password) == bf_secret = Some(password)

\* process_chunk: the passwords of the chunk check_password accepts
process_chunk(chunk) == SelectSeq(chunk, check_password)

\* process_chunk_parallel takes the single-process path
runs_serial(chunk, processes) == processes <= 1 \/ Len(chunk) < processes * 4

optimal_chunk_size(chunk, processes) == Max(MinSubChunk, Len(chunk) \div processes)

\* sub-chunks cut with range(0, len(chunk) - size + 1, size): the remainder is lost
sub_chunks_without_remainder(chunk, processes) ==
    LET size == optimal_chunk_size(chunk, processes)
    IN [c \in 1..(Len(chunk) \div size) |->
           SubSeq(chunk, (c - 1) * size + 1, c * size)]

\* the sub-chunks submitted to the pool
sub_chunks(chunk, processes) ==
    LET size == optimal_chunk_size(chunk, processes)
    IN [c \in 1..((Len(chunk) + size - 1) \div size) |->
           SubSeq(chunk, (c - 1) * size + 1, Min(c * size, Len(chunk)))]

\* the results the double-check keeps
double_checked(results) == SelectSeq(results, check_password)

\* the value the engine returns once the batches are exhausted
returned_password(found_passwords) ==
    IF found_passwords # <<>> THEN Some(found_passwords[1]) ELSE None

FutureStates(state) == {i \in 1..Len(bf_futures) : bf_futures[i].state = state}

(***************************************************************************)
(* wallet_brute_force.py: the engine, brute_force_generated and            *)
(* brute_force_wordlist.                                                   *)
(***************************************************************************)
Alphabet == <<"a", "b", "1">>
Charsets == {<<"a", "b">>, <<"b", "1", "a">>, <<"a", "a">>}
\* no passphrase at all, or the first, the second or the last candidate of a length
Secrets ==
    {None} \cup UNION {{Some(product(Alphabet, n)[k]) : k \in {1, 2, Pow(Len(Alphabet), n)}} :
                           n \in 1..MaxLen}
Checkpoints == {None, Some([attempts |-> 2, current_length |-> 2]),
               Some([attempts |-> 1, current_length |-> 1])}
Wordlists == { << <<"a">>, <<"a", "b">>, <<"b">>, <<"a", "b">> >>,
               product(Alphabet, 2) \o << <<"1">>, <<"a", "b">> >> }

bfConfig == <<bf_mode, bf_charset, bf_max_length, bf_processes, bf_max_consecutive,
              bf_checkpoint, bf_secret, bf_wordlist>>

BFInit ==
    /\ bf_pc = "start"
    /\ bf_secret = None
    /\ bf_mode = "unset"
    /\ bf_charset = <<>>
    /\ bf_min_length = 0
    /\ bf_max_length = 0
    /\ bf_processes = 1
    /\ bf_max_consecutive = 0
    /\ bf_checkpoint = None
    /\ bf_wordlist = <<>>
    /\ bf_queue = <<>>
    /\ bf_batch = <<>>
    /\ bf_batch_num = 0
    /\ bf_futures = <<>>
    /\ bf_results = <<>>
    /\ bf_attempts = 0
    /\ bf_found = <<>>
    /\ bf_tested = EmptyBag
    /\ bf_rechecked = EmptyBag
    /\ bf_ret = None

\* the resume that replays the lengths from the caller's min_length
resumed_min_length_replaying(checkpoint, min_length) == min_length

\* min_length = checkpoint_data.get('current_length', min_length)
resumed_min_length(checkpoint, min_length) ==
    IF checkpoint # None THEN Get(checkpoint).current_length ELSE min_length

\* brute_force_generated up to its loop over the lengths: a checkpoint found
\* at start replaces attempts and min_length
BfStartGenerated ==
    /\ bf_pc = "start"
    /\ \E smart \in BOOLEAN, charset \in Charsets, min_length \in 1..MaxLen,
          processes \in 1..MaxProcesses, max_consecutive \in 0..MaxConsecutive,
          checkpoint \in Checkpoints :
         \E max_length \in min_length..MaxLen :
            /\ bf_secret' \in Secrets
            /\ bf_mode' = IF smart THEN "smart" ELSE "exhaustive"
            /\ bf_charset' = charset
            /\ bf_max_length' = max_length
            /\ bf_processes' = processes
            /\ bf_max_consecutive' = max_consecutive
            /\ bf_checkpoint' = checkpoint
            /\ bf_attempts' = IF checkpoint # None THEN Get(checkpoint).attempts ELSE 0
            /\ bf_min_length' = resumed_min_length(checkpoint, min_length)
            /\ bf_queue' = generated_batches(smart, charset, bf_min_length',
                                             max_length, max_consecutive)
    /\ bf_pc' = "loop"
    /\ UNCHANGED <<bf_wordlist, bf_batch, bf_batch_num, bf_futures, bf_results,
                   bf_found, bf_tested, bf_rechecked, bf_ret>>

\* brute_force_wordlist up to its loop over the chunks
BfStartWordlist ==
    /\ bf_pc = "start"
    /\ \E wordlist \in Wordlists, processes \in 1..MaxProcesses :
         /\ bf_secret' \in Secrets
         /\ bf_mode' = "wordlist"
         /\ bf_wordlist' = wordlist
         /\ bf_processes' = processes
         /\ bf_queue' = wordlist_batches(wordlist)
    /\ bf_pc' = "loop"
    /\ UNCHANGED <<bf_charset, bf_min_length, bf_max_length, bf_max_consecutive,
                   bf_checkpoint, bf_batch, bf_batch_num, bf_futures, bf_results,
                   bf_attempts, bf_found, bf_tested, bf_rechecked, bf_ret>>

\* the batch the loop takes next from the generator
next_batch == IF bf_mode = "wordlist" THEN Head(bf_queue)
              ELSE password_batch(Head(bf_queue), bf_max_consecutive)

\* one loop iteration whose process_chunk_parallel call runs process_chunk
\* in the coordinating process: test, count, double-check
BfBatchSerial ==
    /\ bf_pc = "loop"
    /\ bf_queue # <<>>
    /\ runs_serial(next_batch, bf_processes)
    /\ bf_batch_num' = bf_batch_num + 1
    /\ bf_queue' = Tail(bf_queue)
    /\ bf_tested' = bf_tested (+) BagOfSeq(next_batch)
    /\ bf_attempts' = bf_attempts + Len(next_batch)
    /\ bf_rechecked' = bf_rechecked (+) BagOfSeq(process_chunk(next_batch))
    /\ bf_found' = bf_found \o double_checked(process_chunk(next_batch))
    /\ UNCHANGED <<bfConfig, bf_min_length, bf_pc, bf_batch, bf_futures, bf_results, bf_ret>>

\* one loop iteration whose process_chunk_parallel call submits the
\* sub-chunks to a pool
BfBatchParallel ==
    /\ bf_pc = "loop"
    /\ bf_queue # <<>>
    /\ ~runs_serial(next_batch, bf_processes)
    /\ bf_batch_num' = bf_batch_num + 1
    /\ bf_queue' = Tail(bf_queue)
    /\ bf_batch' = next_batch
    /\ bf_futures' = [i \in 1..Len(sub_chunks(next_batch, bf_processes)) |->
                        [chunk |-> sub_chunks(next_batch, bf_processes)[i],
                         state |-> "pending", result |-> <<>>]]
    /\ bf_results' = <<>>
    /\ bf_pc' = "collect"
    /\ UNCHANGED <<bfConfig, bf_min_length, bf_attempts, bf_found, bf_tested,
                   bf_rechecked, bf_ret>>

\* a free worker of the pool takes the oldest pending future
BfWorkerStart ==
    /\ FutureStates("pending") # {}
    /\ Cardinality(FutureStates("running")) < bf_processes
    /\ LET i == CHOOSE k \in FutureStates("pending") :
                    \A m \in FutureStates("pending") : k <= m
       IN bf_futures' = [bf_futures EXCEPT ![i].state = "running"]
    /\ UNCHANGED <<bfConfig, bf_min_length, bf_pc, bf_queue, bf_batch, bf_batch_num,
                   bf_results, bf_attempts, bf_found, bf_tested, bf_rechecked, bf_ret>>

\* a worker ends process_chunk on its sub-chunk
BfWorkerFinish ==
    \E i \in FutureStates("running") :
        /\ bf_futures' = [bf_futures EXCEPT
                            ![i].state = "finished",
                            ![i].result = process_chunk(bf_futures[i].chunk)]
        /\ bf_tested' = bf_tested (+) BagOfSeq(bf_futures[i].chunk)
        /\ UNCHANGED <<bfConfig, bf_min_length, bf_pc, bf_queue, bf_batch, bf_batch_num,
                       bf_results, bf_attempts, bf_found, bf_rechecked, bf_ret>>

\* the first match leaves the loop without cancelling the futures not yet started
BfCollectMatchNoCancel ==
    /\ bf_pc = "collect"
    /\ \E i \in FutureStates("finished") :
        /\ bf_futures[i].result # <<>>
        /\ bf_results' = bf_results \o bf_futures[i].result
        /\ bf_futures' = [bf_futures EXCEPT ![i].state = "collected"]
    /\ bf_pc' = "join"
    /\ UNCHANGED <<bfConfig, bf_min_length, bf_queue, bf_batch, bf_batch_num, bf_attempts,
                   bf_found, bf_tested, bf_rechecked, bf_ret>>

\* as_completed hands over a finished future with a match: extend results,
\* cancel the futures not yet started, leave the loop
BfCollectMatch ==
    /\ bf_pc = "collect"
    /\ \E i \in FutureStates("finished") :
        /\ bf_futures[i].result # <<>>
        /\ bf_results' = bf_results \o bf_futures[i].result
        /\ bf_futures' = [k \in 1..Len(bf_futures) |->
                            IF k = i THEN [bf_futures[k] EXCEPT !.state = "collected"]
                            ELSE IF bf_futures[k].state = "pending"
                                 THEN [bf_futures[k] EXCEPT !.state = "cancelled"]
                                 ELSE bf_futures[k]]
    /\ bf_pc' = "join"
    /\ UNCHANGED <<bfConfig, bf_min_length, bf_queue, bf_batch, bf_batch_num, bf_attempts,
                   bf_found, bf_tested, bf_rechecked, bf_ret>>

\* as_completed hands over a finished future without a match
BfCollectEmpty ==
    /\ bf_pc = "collect"
    /\ \E i \in FutureStates("finished") :
        /\ bf_futures[i].result = <<>>
        /\ bf_futures' = [bf_futures EXCEPT ![i].state = "collected"]
        /\ bf_pc' = IF \A k \in 1..Len(bf_futures) :
                          k # i => bf_futures[k].state = "collected"
                    THEN "join" ELSE "collect"
    /\ UNCHANGED <<bfConfig, bf_min_length, bf_queue, bf_batch, bf_batch_num, bf_results,
                   bf_attempts, bf_found, bf_tested, bf_rechecked, bf_ret>>

\* the pool is shut down once its running futures have ended;
\* process_chunk_parallel returns and the loop counts and double-checks
BfJoin ==
    /\ bf_pc = "join"
    /\ FutureStates("running") = {}
    /\ bf_attempts' = bf_attempts + Len(bf_batch)
    /\ bf_rechecked' = bf_rechecked (+) BagOfSeq(bf_results)
    /\ bf_found' = bf_found \o double_checked(bf_results)
    /\ bf_futures' = <<>>
    /\ bf_results' = <<>>
    /\ bf_batch' = <<>>
    /\ bf_pc' = "loop"
    /\ UNCHANGED <<bfConfig, bf_min_length, bf_queue, bf_batch_num, bf_tested, bf_ret>>

\* the generator is exhausted: return the first found password, or None
BfReturn ==
    /\ bf_pc = "loop"
    /\ bf_queue = <<>>
    /\ bf_ret' = returned_password(bf_found)
    /\ bf_pc' = "done"
    /\ UNCHANGED <<bfConfig, bf_min_length, bf_queue, bf_batch, bf_batch_num, bf_futures,
                   bf_results, bf_attempts, bf_found, bf_tested, bf_rechecked>>

(***************************************************************************)
(* pywallet_refactored/recovery.py scan_file and pywallet/recovery.py      *)
(* find_patterns: a file is read chunk by chunk and searched for           *)
(* signatures.                                                             *)
(***************************************************************************)
\* buffer_size / read size: 1 MiB in the source, scaled down
ChunkSize == 8
\* bytes that follow the magic of an unencrypted key: 72 in the source, scaled down
PayloadLen == 2
\* bytes find_patterns keeps on each side of a match: 16 in the source, scaled down
Context == 2
\* most reads that fail in one scan
MaxReadErrors == 1

\* the keys of scan_file's results, in the order of its patterns
Kinds == <<"keys", "master_keys", "encrypted_keys">>

\* the constant bytes a pattern starts with: \x04\x01\x01\x04, \x04mkey, \x04ckey
magic(kind) ==
    CASE kind = "keys" -> <<4, 1, 1, 4>>
      [] kind = "master_keys" -> <<4, 109, 107, 101, 121>>
      [] kind = "encrypted_keys" -> <<4, 99, 107, 101, 121>>

\* the arbitrary bytes a pattern ends with: {72}, {84}, {140}
payload_len(kind) ==
    CASE kind = "keys" -> PayloadLen
      [] kind = "master_keys" -> PayloadLen + 1
      [] kind = "encrypted_keys" -> PayloadLen + 2

\* the bytes literal scan_file compares a match with: in b'\\x04...' the
\* doubled backslash stands for a backslash, followed by 'x', '0', '4'
prefix_literal(kind) ==
    CASE kind = "keys" -> <<92, 120, 48, 52, 92, 120, 48, 49, 92, 120, 48, 49, 92, 120, 48, 52>>
      [] kind = "master_keys" -> <<92, 120, 48, 52, 109, 107, 101, 121>>
      [] kind = "encrypted_keys" -> <<92, 120, 48, 52, 99, 107, 101, 121>>

startswith(data, prefix) ==
    Len(data) >= Len(prefix) /\ SubSeq(data, 1, Len(prefix)) = prefix

\* the if / elif chain over data.startswith
classify(data) ==
    IF startswith(data, prefix_literal("keys")) THEN "keys"
    ELSE IF startswith(data, prefix_literal("master_keys")) THEN "master_keys"
    ELSE IF startswith(data, prefix_literal("encrypted_keys")) THEN "encrypted_keys"
    ELSE "none"

RECURSIVE finditer(_, _, _, _)
\* re.finditer: the starts of the non-overlapping matches, left to right, of
\* the bytes `fixed` followed by `extra` arbitrary bytes, from position p on
finditer(fixed, extra, data, p) ==
    IF p + Len(fixed) + extra > Len(data) THEN <<>>
    ELSE IF SubSeq(data, p + 1, p + Len(fixed)) = fixed
         THEN <<p>> \o finditer(fixed, extra, data, p + Len(fixed) + extra)
         ELSE finditer(fixed, extra, data, p + 1)

\* read_part_file / os.read: at most `length` bytes from `offset` on
read_part_file(file, offset, length) ==
    SubSeq(file, offset + 1, Min(offset + length, Len(file)))

\* scan_file's search of one buffer: class and logged offset of every match
scan_buffer(buffer, offset) ==
    Flatten([k \in 1..Len(Kinds) |->
        LET starts == finditer(magic(Kinds[k]), payload_len(Kinds[k]), buffer, 0)
        IN [j \in 1..Len(starts) |->
               [class |-> classify(SubSeq(buffer, starts[j] + 1,
                               starts[j] + Len(magic(Kinds[k])) + payload_len(Kinds[k]))),
                offset |-> offset + starts[j]]]])

offsets_of(matches, class) ==
    LET kept == SelectSeq(matches, LAMBDA m : m.class = class)
    IN [j \in 1..Len(kept) |-> kept[j].offset]

\* find_patterns' search of one chunk: (i + pos, datakept) of every match
blocks_of(pattern, data, i) ==
    LET found_positions == finditer(pattern, 0, data, 0)
    IN [j \in 1..Len(found_positions) |->
           [offset |-> i + found_positions[j],
            datakept |-> SubSeq(data, Max(0, found_positions[j] - Context) + 1,
                                Min(Len(data), found_positions[j] + Len(pattern) + Context))]]

\* find_patterns' second pass: offset + m.start() over each kept block
all_offsets(pattern, blocks) ==
    Flatten([b \in 1..Len(blocks) |->
        LET starts == finditer(pattern, 0, blocks[b].datakept, 0)
        IN [j \in 1..Len(starts) |-> blocks[b].offset + starts[j]]])

signature(kind) == magic(kind) \o [j \in 1..payload_len(kind) |-> 7]

\* a zero-filled file of `size` bytes with one signature written at offset `at`
planted_file(size, kind, at) ==
    [j \in 1..size |->
        IF j > at /\ j <= at + Len(signature(kind)) THEN signature(kind)[j - at] ELSE 0]

FileSize == 2 * ChunkSize + 4

NoResults == [k \in {"keys", "master_keys", "encrypted_keys"} |-> <<>>]

ScInit ==
    /\ sc_pc = "idle"
    /\ sc_engine = "none"
    /\ sc_file = <<>>
    /\ sc_size = 0
    /\ sc_planted = [kind |-> "none", at |-> 0]
    /\ sc_offset = 0
    /\ sc_blocks = NoResults
    /\ sc_results = NoResults
    /\ sc_errors = 0
    /\ sc_skipped = <<>>

\* the scan of a file with a planted signature begins: scan_file from offset
\* 0 with max_size None or larger than the file, find_patterns with size
ScStart ==
    /\ sc_pc = "idle"
    /\ \E engine \in {"scan_file", "find_patterns"}, k \in 1..Len(Kinds),
          size \in {FileSize, FileSize + ChunkSize} :
         \E at \in 0..(FileSize - Len(signature(Kinds[k]))) :
            /\ sc_engine' = engine
            /\ sc_planted' = [kind |-> Kinds[k], at |-> at]
            /\ sc_file' = planted_file(FileSize, Kinds[k], at)
            /\ sc_size' = size
    /\ sc_pc' = "scan"
    /\ UNCHANGED <<sc_offset, sc_blocks, sc_results, sc_errors, sc_skipped>>

\* one iteration of scan_file's loop; an empty buffer leaves the loop
ScanFileChunk ==
    /\ sc_pc = "scan" /\ sc_engine = "scan_file"
    /\ sc_offset < sc_size
    /\ LET size == Min(ChunkSize, sc_size - sc_offset)
           buffer == read_part_file(sc_file, sc_offset, size)
           matches == scan_buffer(buffer, sc_offset)
       IN IF buffer = <<>>
          THEN sc_pc' = "done" /\ UNCHANGED <<sc_offset, sc_results>>
          ELSE /\ sc_results' = [c \in DOMAIN sc_results |->
                                    sc_results[c] \o offsets_of(matches, c)]
               /\ sc_offset' = sc_offset + size
               /\ sc_pc' = "scan"
    /\ UNCHANGED <<sc_engine, sc_file, sc_size, sc_planted, sc_blocks, sc_errors, sc_skipped>>

\* read_part_file raises: scan_file raises RecoveryError
ScanFileReadError ==
    /\ sc_pc = "scan" /\ sc_engine = "scan_file"
    /\ sc_offset < sc_size
    /\ sc_errors < MaxReadErrors
    /\ sc_errors' = sc_errors + 1
    /\ sc_skipped' = Append(sc_skipped, sc_offset)
    /\ sc_pc' = "failed"
    /\ UNCHANGED <<sc_engine, sc_file, sc_size, sc_planted, sc_offset, sc_blocks, sc_results>>

\* scan_file's loop ends: close and return results
ScanFileReturn ==
    /\ sc_pc = "scan" /\ sc_engine = "scan_file"
    /\ sc_offset >= sc_size
    /\ sc_pc' = "done"
    /\ UNCHANGED <<sc_engine, sc_file, sc_size, sc_planted, sc_offset, sc_blocks, sc_results,
                   sc_errors, sc_skipped>>

\* one iteration of find_patterns' loop; a read of no bytes leaves the loop
\* and the second pass computes AllOffsets
FindPatternsChunk ==
    /\ sc_pc = "scan" /\ sc_engine = "find_patterns"
    /\ sc_offset < sc_size
    /\ LET readsize == Min(sc_size - sc_offset, ChunkSize)
           data == read_part_file(sc_file, sc_offset, readsize)
       IN IF data = <<>>
          THEN /\ sc_pc' = "done"
               /\ sc_results' = [c \in DOMAIN sc_results |-> all_offsets(magic(c), sc_blocks[c])]
               /\ UNCHANGED <<sc_offset, sc_blocks>>
          ELSE /\ sc_blocks' = [c \in DOMAIN sc_blocks |->
                                   sc_blocks[c] \o blocks_of(magic(c), data, sc_offset)]
               /\ sc_offset' = sc_offset + Len(data)
               /\ sc_pc' = "scan"
               /\ UNCHANGED sc_results
    /\ UNCHANGED <<sc_engine, sc_file, sc_size, sc_planted, sc_errors, sc_skipped>>

\* os.read raises: find_patterns seeks past the chunk and goes on
FindPatternsReadError ==
    /\ sc_pc = "scan" /\ sc_engine = "find_patterns"
    /\ sc_offset < sc_size
    /\ sc_errors < MaxReadErrors
    /\ sc_errors' = sc_errors + 1
    /\ sc_skipped' = Append(sc_skipped, sc_offset)
    /\ sc_offset' = sc_offset + Min(sc_size - sc_offset, ChunkSize)
    /\ UNCHANGED <<sc_pc, sc_engine, sc_file, sc_size, sc_planted, sc_blocks, sc_results>>

\* find_patterns' loop ends: the second pass computes AllOffsets
FindPatternsReturn ==
    /\ sc_pc = "scan" /\ sc_engine = "find_patterns"
    /\ sc_offset >= sc_size
    /\ sc_results' = [c \in DOMAIN sc_results |-> all_offsets(magic(c), sc_blocks[c])]
    /\ sc_pc' = "done"
    /\ UNCHANGED <<sc_engine, sc_file, sc_size, sc_planted, sc_offset, sc_blocks, sc_errors,
                   sc_skipped>>

(***************************************************************************)
(* pywallet_refactored/crypto/aes.py: encrypt_aes and decrypt_aes.         *)
(* AES itself is replaced by a keyed byte-wise permutation of a block and  *)
(* the XOR of CBC chaining by addition modulo 256: a stand-in that, like   *)
(* AES-CBC, decrypts what it encrypted and maps every ciphertext of whole  *)
(* blocks to some plaintext.                                               *)
(***************************************************************************)
\* AES block and IV size in bytes
BlockSize == 16
\* AES-256 key size in bytes
KeySize == 32

\* the outcome of a call: a returned value or a raised error
Ok(v) == [ok |-> TRUE, value |-> v, error |-> ""]
Err(e) == [ok |-> FALSE, value |-> <<>>, error |-> e]

block_encrypt(key, block) == [i \in 1..BlockSize |-> (block[i] + key[i] + key[i + BlockSize]) % 256]
block_decrypt(key, block) == [i \in 1..BlockSize |-> (block[i] + 512 - key[i] - key[i + BlockSize]) % 256]

RECURSIVE cbc_encrypt(_, _, _)
\* cipher.encrypt in CBC mode: every block is chained with the previous ciphertext block
cbc_encrypt(key, iv, padded_data) ==
    IF padded_data = <<>> THEN <<>>
    ELSE LET block == [i \in 1..BlockSize |-> (padded_data[i] + iv[i]) % 256]
             out == block_encrypt(key, block)
         IN out \o cbc_encrypt(key, out, SubSeq(padded_data, BlockSize + 1, Len(padded_data)))

RECURSIVE cbc_decrypt(_, _, _)
cbc_decrypt(key, iv, encrypted_data) ==
    IF encrypted_data = <<>> THEN <<>>
    ELSE LET block == block_decrypt(key, SubSeq(encrypted_data, 1, BlockSize))
         IN [i \in 1..BlockSize |-> (block[i] + 256 - iv[i]) % 256]
                \o cbc_decrypt(key, SubSeq(encrypted_data, 1, BlockSize),
                               SubSeq(encrypted_data, BlockSize + 1, Len(encrypted_data)))

\* a padding that adds nothing to data of whole blocks
pkcs7_pad_to_boundary(data) ==
    LET pad_length == (BlockSize - (Len(data) % BlockSize)) % BlockSize
    IN data \o [i \in 1..pad_length |-> pad_length]

\* data + bytes([pad_length]) * pad_length
pkcs7_pad(data) ==
    LET pad_length == BlockSize - (Len(data) % BlockSize)
    IN data \o [i \in 1..pad_length |-> pad_length]

\* encrypt_aes with the IV given or drawn at random
encrypt_aes(data, key, iv) ==
    IF Len(key) # KeySize THEN Err("AES-256 requires a 32-byte key")
    ELSE IF Len(iv) # BlockSize THEN Err("AES-CBC requires a 16-byte IV")
    ELSE Ok(iv \o cbc_encrypt(key, iv, pkcs7_pad(data)))

\* decrypt_aes up to the removal of the padding: cipher.decrypt's output, or
\* the error raised before it
decrypted_data(encrypted_data, key) ==
    IF Len(key) # KeySize THEN Err("AES-256 requires a 32-byte key")
    ELSE IF Len(encrypted_data) < BlockSize THEN Err("Encrypted data is too short")
    ELSE IF Len(encrypted_data) % BlockSize # 0
         THEN Err("Data must be padded to 16 byte boundary in CBC mode")
    ELSE Ok(cbc_decrypt(key, SubSeq(encrypted_data, 1, BlockSize),
                        SubSeq(encrypted_data, BlockSize + 1, Len(encrypted_data))))

\* the removal of the padding: decrypted_data[:-pad_length] unless pad_length > 16
remove_padding(decrypted) ==
    IF decrypted = <<>> THEN Err("index out of range")
    ELSE LET pad_length == decrypted[Len(decrypted)]
         IN IF pad_length > 16 THEN Err("Invalid padding")
            ELSE IF pad_length = 0 THEN Ok(<<>>)
            ELSE Ok(SubSeq(decrypted, 1, Len(decrypted) - pad_length))

decrypt_aes(encrypted_data, key) ==
    IF decrypted_data(encrypted_data, key).ok
    THEN remove_padding(decrypted_data(encrypted_data, key).value)
    ELSE decrypted_data(encrypted_data, key)

\* keys, IVs and byte strings of the calls
AesKeys == { [i \in 1..KeySize |-> i], [i \in 1..KeySize |-> (7 * i + 3) % 256],
             [i \in 1..(KeySize - 1) |-> 1] }
AesIVs == { [i \in 1..BlockSize |-> 0], [i \in 1..BlockSize |-> 255 - i] }
AesData == { [i \in 1..n |-> 64 + i] : n \in {0, 1, 15, 16, 17, 32, 33} }
             \cup { [i \in 1..5 |-> 5], [i \in 1..3 |-> 0] }

\* a block string whose last byte is p: the p bytes at the end are p, except
\* the byte `broken` places before the last (none if broken = 0)
tail_bytes(n, p, broken) ==
    [i \in 1..n |->
        IF i = n THEN p
        ELSE IF broken > 0 /\ i = n - broken THEN 66
        ELSE IF i > n - p THEN p
        ELSE 65]
AesTails ==
    { tail_bytes(n, p, broken) :
        n \in {BlockSize, 2 * BlockSize}, p \in {0, 1, 2, 15, 16, 17, 200}, broken \in 0..2 }
\* ciphertexts handed to decrypt_aes: whole blocks, cut short, or no blocks
AesCiphertexts(key, iv) ==
    IF Len(key) # KeySize THEN { iv }
    ELSE { iv \o cbc_encrypt(key, iv, t) : t \in AesTails }
            \cup { iv, SubSeq(iv, 1, 7), iv \o SubSeq(iv, 1, 5) }

AesInit ==
    /\ aes_op = "none"
    /\ aes_key = <<>>
    /\ aes_data = <<>>
    /\ aes_plain = <<>>
    /\ aes_prev = <<>>
    /\ aes_out = Err("")

\* a call of encrypt_aes
AesEncrypt ==
    /\ aes_op = "none"
    /\ \E key \in AesKeys, data \in AesData, iv \in AesIVs \cup {SubSeq([i \in 1..BlockSize |-> 0], 1, 8)} :
        /\ aes_op' = "encrypt"
        /\ aes_key' = key
        /\ aes_data' = data
        /\ aes_plain' = <<>>
        /\ aes_prev' = <<>>
        /\ aes_out' = encrypt_aes(data, key, iv)

\* a call of decrypt_aes on a ciphertext from outside
AesDecrypt ==
    /\ aes_op = "none"
    /\ \E key \in AesKeys, iv \in AesIVs :
      \E encrypted_data \in AesCiphertexts(key, iv) :
        /\ aes_op' = "decrypt"
        /\ aes_key' = key
        /\ aes_data' = encrypted_data
        /\ aes_plain' = decrypted_data(encrypted_data, key).value
        /\ aes_prev' = <<>>
        /\ aes_out' = decrypt_aes(encrypted_data, key)

\* a call of decrypt_aes on what the last encrypt_aes call returned
AesDecryptEncrypted ==
    /\ aes_op = "encrypt" /\ aes_out.ok
    /\ \E key \in AesKeys :
        /\ aes_op' = "decrypt"
        /\ aes_key' = key
        /\ aes_data' = aes_out.value
        /\ aes_plain' = decrypted_data(aes_out.value, key).value
        /\ aes_prev' = <<aes_key, aes_data>>
        /\ aes_out' = decrypt_aes(aes_out.value, key)

(***************************************************************************)
(* pywallet_refactored/crypto/base58.py and crypto/keys.py: Base58Check    *)
(* and the WIF form of a private key.  Byte strings are sequences of       *)
(* 0..255, big integers are byte sequences, strings are sequences of       *)
(* characters.  The double SHA-256 checksum is replaced by four position-  *)
(* weighted byte sums.                                                     *)
(***************************************************************************)
\* bytes of a private key
PrivateKeyLen == 32

BASE58_ALPHABET ==
    <<"1","2","3","4","5","6","7","8","9","A","B","C","D","E","F","G","H","J","K","L",
      "M","N","P","Q","R","S","T","U","V","W","X","Y","Z","a","b","c","d","e","f","g",
      "h","i","j","k","m","n","o","p","q","r","s","t","u","v","w","x","y","z">>

Reverse(s) == [i \in 1..Len(s) |-> s[Len(s) + 1 - i]]

RECURSIVE strip_zeros(_)
strip_zeros(n) == IF n # <<>> /\ Head(n) = 0 THEN strip_zeros(Tail(n)) ELSE n

RECURSIVE leading(_, _)
\* how many times `x` stands at the start of s
leading(s, x) == IF s # <<>> /\ Head(s) = x THEN 1 + leading(Tail(s), x) ELSE 0

\* The long loops of this section are evaluated by halves, the second half
\* entered with what the first half left: the same rounds in the same order.

RECURSIVE divmod58(_, _)
\* divmod(n, 58) on the big-endian bytes n, entered with the carry `rem`
divmod58(n, rem) ==
    IF n = <<>> THEN [q |-> <<>>, r |-> rem]
    ELSE IF Len(n) = 1
         THEN [q |-> <<(rem * 256 + n[1]) \div 58>>, r |-> (rem * 256 + n[1]) % 58]
    ELSE the({ the({ [q |-> first.q \o rest.q, r |-> rest.r] :
                        rest \in {divmod58(SubSeq(n, Len(n) \div 2 + 1, Len(n)), first.r)} }) :
                  first \in {divmod58(SubSeq(n, 1, Len(n) \div 2), rem)} })

RECURSIVE b58rounds(_, _)
\* at most k rounds of the loop `while n > 0` of b58encode: the n that is
\* left and the digits produced
b58rounds(n, k) ==
    IF k = 0 \/ strip_zeros(n) = <<>> THEN [n |-> <<>>, digits |-> <<>>]
    ELSE IF k = 1
         THEN the({ [n |-> d.q, digits |-> <<BASE58_ALPHABET[d.r + 1]>>] :
                       d \in {divmod58(strip_zeros(n), 0)} })
    ELSE the({ the({ [n |-> later.n, digits |-> later.digits \o first.digits] :
                        later \in {b58rounds(first.n, k - k \div 2)} }) :
                  first \in {b58rounds(n, k \div 2)} })

\* the loop `while n > 0` of b58encode: a byte makes less than two digits
b58digits(n) == b58rounds(n, 2 * Len(n)).digits

\* b58encode without the '1' characters for the leading zero bytes
b58encode_without_ones(data) == b58digits(data)

b58encode(data) == [i \in 1..leading(data, 0) |-> "1"] \o b58digits(data)

RECURSIVE muladd58(_, _)
\* n * 58 + carry on the little-endian bytes n
muladd58(n, carry) ==
    IF n = <<>>
    THEN IF carry = 0 THEN <<>> ELSE <<carry % 256>> \o muladd58(<<>>, carry \div 256)
    ELSE IF Len(n) = 1
         THEN <<(n[1] * 58 + carry) % 256>> \o muladd58(<<>>, (n[1] * 58 + carry) \div 256)
    ELSE the({ SubSeq(low, 1, Len(n) \div 2)
                   \o muladd58(SubSeq(n, Len(n) \div 2 + 1, Len(n)),
                               IF Len(low) > Len(n) \div 2 THEN low[Len(low)] ELSE 0) :
                  low \in {muladd58(SubSeq(n, 1, Len(n) \div 2), carry)} })

index(char) == CHOOSE i \in 0..57 : BASE58_ALPHABET[i + 1] = char

RECURSIVE b58number(_, _)
\* the loop n = n * 58 + BASE58_ALPHABET.index(char), n in little-endian bytes
b58number(encoded, n) ==
    IF encoded = <<>> THEN n
    ELSE IF Len(encoded) = 1 THEN muladd58(n, index(encoded[1]))
    ELSE the({ b58number(SubSeq(encoded, Len(encoded) \div 2 + 1, Len(encoded)), first) :
                  first \in {b58number(SubSeq(encoded, 1, Len(encoded) \div 2), n)} })

\* b58decode without the zero bytes for the leading '1' characters
b58decode_without_padding(encoded) ==
    IF \E i \in 1..Len(encoded) : \A j \in 1..58 : BASE58_ALPHABET[j] # encoded[i]
    THEN Err("substring not found")
    ELSE Ok(Reverse(b58number(encoded, <<>>)))

\* b58decode; BASE58_ALPHABET.index raises ValueError on a foreign character
b58decode(encoded) ==
    IF \E i \in 1..Len(encoded) : \A j \in 1..58 : BASE58_ALPHABET[j] # encoded[i]
    THEN Err("substring not found")
    ELSE Ok([i \in 1..leading(encoded, "1") |-> 0] \o Reverse(b58number(encoded, <<>>)))

\* stand-in for sha256(sha256(data))[:4]
checksum(data) ==
    LET RECURSIVE sum(_, _, _)
        sum(from, to, w) ==
            IF from > to THEN 0
            ELSE IF from = to THEN (data[from] * (((w * from) % 251) + 1)) % 256
            ELSE (sum(from, (from + to) \div 2, w) + sum((from + to) \div 2 + 1, to, w)) % 256
    IN <<(sum(1, Len(data), 1) + Len(data)) % 256, sum(1, Len(data), 3),
         sum(1, Len(data), 7), sum(1, Len(data), 13)>>

b58encode_check(data) == the({ b58encode(checked) : checked \in {data \o checksum(data)} })

\* b58decode_check: the data without the checksum, None if the checksum is wrong
b58decode_check(encoded) ==
    IF ~b58decode(encoded).ok THEN b58decode(encoded)
    ELSE LET decoded == b58decode(encoded).value
         IN IF Len(decoded) < 4 THEN Ok(None)
            ELSE IF SubSeq(decoded, Len(decoded) - 3, Len(decoded))
                        # checksum(SubSeq(decoded, 1, Len(decoded) - 4))
                 THEN Ok(None)
                 ELSE Ok(Some(SubSeq(decoded, 1, Len(decoded) - 4)))

private_key_to_wif(private_key, compressed, network) ==
    b58encode_check(<<network>> \o private_key \o (IF compressed THEN <<1>> ELSE <<>>))

wif_to_private_key(wif, network) ==
    IF ~b58decode_check(wif).ok THEN b58decode_check(wif)
    ELSE LET decoded == b58decode_check(wif).value
         IN IF decoded = None THEN Err("Invalid WIF key (checksum mismatch)")
            ELSE IF Get(decoded) = <<>> THEN Err("index out of range")
            ELSE IF Get(decoded)[1] # network THEN Err("WIF key is for a different network")
            ELSE IF Len(Get(decoded)) = 34
                 THEN Ok(<<SubSeq(Get(decoded), 2, 33), TRUE>>)
            ELSE IF Len(Get(decoded)) = 33
                 THEN Ok(<<SubSeq(Get(decoded), 2, 33), FALSE>>)
            ELSE Err("Invalid WIF key length")

\* network['wif']: Bitcoin, Testnet, and a caller's own network dictionary
WifNetworks == {128, 239, 0}
WifKeys == { [i \in 1..PrivateKeyLen |-> (a * i + b) % 256] : a \in {0, 1, 37}, b \in {0, 1, 255} }
\* what a caller may have done to a WIF string before handing it over
Manglings == {"first character replaced", "last character replaced", "last character cut",
              "foreign character", "empty"}
mangled(wif, how) ==
    CASE how = "first character replaced" -> <<(IF wif[1] = "5" THEN "K" ELSE "5")>> \o Tail(wif)
      [] how = "last character replaced" ->
            SubSeq(wif, 1, Len(wif) - 1) \o <<(IF wif[Len(wif)] = "z" THEN "y" ELSE "z")>>
      [] how = "last character cut" -> SubSeq(wif, 1, Len(wif) - 1)
      [] how = "foreign character" -> wif \o <<"0">>
      [] how = "empty" -> <<>>

WifInit ==
    /\ wif_op = "none"
    /\ wif_key = <<>>
    /\ wif_compressed = FALSE
    /\ wif_network = 0
    /\ wif_str = <<>>
    /\ wif_mangled = FALSE
    /\ wif_out = Err("")

\* a call of private_key_to_wif
WifEncode ==
    /\ wif_op = "none"
    /\ \E private_key \in WifKeys, compressed \in BOOLEAN, network \in WifNetworks :
        /\ wif_op' = "encode"
        /\ wif_key' = private_key
        /\ wif_compressed' = compressed
        /\ wif_network' = network
        /\ wif_str' = private_key_to_wif(private_key, compressed, network)
        /\ wif_mangled' = FALSE
        /\ wif_out' = Err("")

\* a call of wif_to_private_key on what private_key_to_wif returned
WifDecode ==
    /\ wif_op = "encode"
    /\ \E network \in WifNetworks :
        /\ wif_op' = "decode"
        /\ wif_network' = network
        /\ wif_mangled' = (network # wif_network)
        /\ wif_out' = wif_to_private_key(wif_str, network)
    /\ UNCHANGED <<wif_key, wif_compressed, wif_str>>

\* a call of wif_to_private_key on a string that was altered on the way
WifDecodeMangled ==
    /\ wif_op = "encode"
    /\ \E how \in Manglings :
        /\ wif_str' = mangled(wif_str, how)
        /\ wif_out' = wif_to_private_key(mangled(wif_str, how), wif_network)
    /\ wif_op' = "decode"
    /\ wif_mangled' = TRUE
    /\ UNCHANGED <<wif_key, wif_compressed, wif_network>>

\* what a Base58Check string handed to wif_to_private_key may decode to: a
\* version byte followed by 31, 32, 33 or 34 bytes, or nothing at all
WifPayloads ==
    {<<>>} \cup
    { <<version>> \o SubSeq(key, 1, n) \o tail :
        version \in {128, 239},
        key \in {[i \in 1..PrivateKeyLen |-> i], [i \in 1..PrivateKeyLen |-> 0]},
        n \in {PrivateKeyLen - 1, PrivateKeyLen},
        tail \in {<<>>, <<1>>, <<0>>, <<1, 1>>} }

\* a call of wif_to_private_key on the Base58Check form of a payload, as it
\* is or with its last character replaced
WifDecodePayload ==
    /\ wif_op = "none"
    /\ \E payload \in WifPayloads, network \in WifNetworks, corrupt \in BOOLEAN :
        LET wif == IF corrupt THEN mangled(b58encode_check(payload), "last character replaced")
                   ELSE b58encode_check(payload)
        IN /\ wif_key' = payload
           /\ wif_network' = network
           /\ wif_mangled' = corrupt
           /\ wif_str' = wif
           /\ wif_out' = wif_to_private_key(wif, network)
    /\ wif_op' = "decode_payload"
    /\ UNCHANGED wif_compressed

(***************************************************************************)
(* crypto/base58.py and crypto/keys.py called on arbitrary input: the      *)
(* Base58 codec and the two validators.                                    *)
(***************************************************************************)
\* longest byte string of the round trip
MaxBytes == 3

\* config.py: the network dictionaries
Networks == { [pubKeyHash |-> 0, scriptHash |-> 5, wif |-> 128],
              [pubKeyHash |-> 111, scriptHash |-> 196, wif |-> 239] }

\* is_valid_address: any exception of the decode becomes False
is_valid_address(address, network) ==
    the({ IF ~decoded.ok THEN FALSE
          ELSE IF decoded.value = None THEN FALSE
          ELSE IF Get(decoded.value) = <<>> THEN FALSE
          ELSE \/ Get(decoded.value)[1] = network.pubKeyHash
               \/ Get(decoded.value)[1] = network.scriptHash :
             decoded \in {b58decode_check(address)} })

\* is_valid_wif with the exception of wif_to_private_key passed on
is_valid_wif_raising(wif, network) ==
    the({ IF decoded.ok THEN Ok(TRUE) ELSE decoded :
             decoded \in {wif_to_private_key(wif, network.wif)} })

\* is_valid_wif: any exception of wif_to_private_key becomes False
is_valid_wif(wif, network) == Ok(wif_to_private_key(wif, network.wif).ok)

(* ---- inputs ---- *)
RECURSIVE ByteStrings(_)
\* the byte strings of at most n bytes over 0, 1, 58 and 255
ByteStrings(n) ==
    IF n = 0 THEN {<<>>}
    ELSE ByteStrings(n - 1) \cup
         { <<b>> \o rest : b \in {0, 1, 58, 255}, rest \in {r \in ByteStrings(n - 1) : Len(r) = n - 1} }

B58Data ==
    ByteStrings(MaxBytes) \cup {[i \in 1..25 |-> 0], [i \in 1..25 |-> IF i < 3 THEN 0 ELSE i]}

\* payloads of addresses and keys: version byte and 20-byte hash, version byte
\* and key with or without the compression flag, a lone version byte, nothing
B58Payloads ==
    { <<version>> \o [i \in 1..20 |-> i] : version \in {0, 5, 111, 128} }
    \cup { <<128>> \o [i \in 1..PrivateKeyLen |-> i] \o tail : tail \in {<<>>, <<1>>} }
    \cup { <<0>>, <<>> }

\* what a user may hand in: a Base58Check string, one with its last character
\* replaced, one with a character outside the alphabet, a string that decodes
\* to fewer than four bytes, the empty string
B58Inputs ==
    { [str |-> b58encode_check(payload), kind |-> "valid", payload |-> payload] :
        payload \in B58Payloads }
    \cup { [str |-> mangled(b58encode_check(payload), "last character replaced"),
            kind |-> "checksum mismatch", payload |-> payload] : payload \in B58Payloads }
    \cup { [str |-> mangled(b58encode_check(payload), "foreign character"),
            kind |-> "foreign character", payload |-> payload] : payload \in B58Payloads }
    \cup { [str |-> str, kind |-> "too short", payload |-> <<>>] :
            str \in {<<>>, <<"1">>, <<"1", "1", "1">>, <<"2">>, <<"z", "z">>} }
    \cup { [str |-> str, kind |-> "foreign character", payload |-> <<>>] :
            str \in {<<"0">>, <<"O">>, <<"I">>, <<"l">>, <<" ">>} }

B58Init ==
    /\ b58_op = "none"
    /\ b58_data = <<>>
    /\ b58_in = [str |-> <<>>, kind |-> "", payload |-> <<>>]
    /\ b58_network = [pubKeyHash |-> 0, scriptHash |-> 5, wif |-> 128]
    /\ b58_out = Ok(<<>>)

\* a call of b58encode
B58Encode ==
    /\ b58_op = "none"
    /\ \E data \in B58Data :
        /\ b58_data' = data
        /\ b58_out' = Ok(b58encode(data))
    /\ b58_op' = "b58encode"
    /\ UNCHANGED <<b58_in, b58_network>>

\* a call of b58decode on what b58encode returned
B58Decode ==
    /\ b58_op = "b58encode"
    /\ b58_op' = "b58decode"
    /\ b58_in' = [str |-> b58_out.value, kind |-> "encoded", payload |-> b58_data]
    /\ b58_out' = b58decode(b58_out.value)
    /\ UNCHANGED <<b58_data, b58_network>>

\* a call of b58decode_check
B58DecodeCheck ==
    /\ b58_op = "none"
    /\ \E input \in B58Inputs :
        /\ b58_in' = input
        /\ \E str \in {input.str} : b58_out' = b58decode_check(str)
    /\ b58_op' = "b58decode_check"
    /\ UNCHANGED <<b58_data, b58_network>>

\* a call of is_valid_address
IsValidAddress ==
    /\ b58_op = "none"
    /\ \E input \in B58Inputs, network \in Networks :
        /\ b58_in' = input
        /\ b58_network' = network
        /\ \E str \in {input.str} : b58_out' = Ok(is_valid_address(str, network))
    /\ b58_op' = "is_valid_address"
    /\ UNCHANGED b58_data

\* a call of is_valid_wif
IsValidWif ==
    /\ b58_op = "none"
    /\ \E input \in B58Inputs, network \in Networks :
        /\ b58_in' = input
        /\ b58_network' = network
        /\ \E str \in {input.str} : b58_out' = is_valid_wif(str, network)
    /\ b58_op' = "is_valid_wif"
    /\ UNCHANGED b58_data

(***************************************************************************)
(* pywallet_refactored/utils/datastream.py and db/wallet.py: the wallet    *)
(* record store.  A store is a function from record keys to record values, *)
(* both byte strings; a cursor walks it in key order.                      *)
(***************************************************************************)
\* most wallet operations in one run
MaxOps == 2

\* max_records of _read_records, 10000 in the source, scaled down
max_records == 8

\* b"\x04key", b"\x04ckey", b"\x04mkey", b"\x04name", b"\x04version"
KEY == <<4, 107, 101, 121>>
CKEY == <<4, 99, 107, 101, 121>>
MKEY == <<4, 109, 107, 101, 121>>
NAME == <<4, 110, 97, 109, 101>>
VERSION == <<4, 118, 101, 114, 115, 105, 111, 110>>

\* DB.put
put(db, key, value) == [k \in DOMAIN db \cup {key} |-> IF k = key THEN value ELSE db[k]]

\* the store after a sequence of puts: the last put under a key decides
apply_puts(db, puts) ==
    [k \in DOMAIN db \cup {puts[i].key : i \in DOMAIN puts} |->
        IF \E i \in DOMAIN puts : puts[i].key = k
        THEN puts[CHOOSE i \in DOMAIN puts :
                     puts[i].key = k /\ \A j \in DOMAIN puts : puts[j].key = k => j <= i].value
        ELSE db[k]]


RECURSIVE lex_less(_, _)
\* the byte-wise order of a btree's keys
lex_less(a, b) ==
    IF b = <<>> THEN FALSE
    ELSE IF a = <<>> THEN TRUE
    ELSE IF Head(a) # Head(b) THEN Head(a) < Head(b)
    ELSE lex_less(Tail(a), Tail(b))

RECURSIVE sorted_keys(_)
\* the keys in the order cursor.next() returns their records
sorted_keys(keys) ==
    IF keys = {} THEN <<>>
    ELSE the({ <<first>> \o sorted_keys(keys \ {first}) :
                  first \in {k \in keys : \A other \in keys \ {k} : lex_less(k, other)} })

RECURSIVE little_endian(_)
little_endian(raw) == IF raw = <<>> THEN 0 ELSE Head(raw) + 256 * little_endian(Tail(raw))

\* BCDataStream.read_bytes: a slice, shorter than asked for at the end of the input
read_bytes(input, cursor, length) ==
    SubSeq(input, cursor + 1, Min(cursor + length, Len(input)))

\* BCDataStream.read_uint32: struct.unpack needs all four bytes
read_uint32(input, cursor) ==
    LET raw == read_bytes(input, cursor, 4)
    IN [ok |-> Len(raw) = 4, value |-> little_endian(raw), cursor |-> cursor + 4]

\* read_compact_size with the first byte compared by <= 253
read_compact_size_inclusive(input, cursor) ==
    IF cursor >= Len(input) THEN [ok |-> FALSE, value |-> 0, cursor |-> cursor]
    ELSE IF input[cursor + 1] <= 253
         THEN [ok |-> TRUE, value |-> input[cursor + 1], cursor |-> cursor + 1]
    ELSE LET width == CASE input[cursor + 1] = 254 -> 4
                        [] input[cursor + 1] = 255 -> 8
             raw == read_bytes(input, cursor + 1, width)
         IN [ok |-> Len(raw) = width, value |-> little_endian(raw),
             cursor |-> cursor + 1 + width]

\* BCDataStream.read_compact_size: indexing past the input raises IndexError
read_compact_size(input, cursor) ==
    IF cursor >= Len(input) THEN [ok |-> FALSE, value |-> 0, cursor |-> cursor]
    ELSE IF input[cursor + 1] < 253
         THEN [ok |-> TRUE, value |-> input[cursor + 1], cursor |-> cursor + 1]
    ELSE LET width == CASE input[cursor + 1] = 253 -> 2
                        [] input[cursor + 1] = 254 -> 4
                        [] input[cursor + 1] = 255 -> 8
             raw == read_bytes(input, cursor + 1, width)
         IN [ok |-> Len(raw) = width, value |-> little_endian(raw),
             cursor |-> cursor + 1 + width]

\* read_bytes(read_compact_size()): a length-prefixed byte string
read_string(input, cursor) ==
    LET size == read_compact_size(input, cursor)
    IN [ok |-> size.ok, value |-> read_bytes(input, size.cursor, size.value),
        cursor |-> size.cursor + size.value]

\* stand-in for the elliptic-curve point of a private key
private_key_to_public_key(private_key, compressed) ==
    <<(IF compressed THEN 2 ELSE 4)>> \o [i \in 1..2 |-> (private_key[i] * 7 + 13) % 256]

\* stand-in for Base58Check(version byte + hash160(public_key)), one to one
\* as the hash is taken to be
public_key_to_address(public_key) == <<0>> \o public_key

\* the json_db read_wallet starts from
empty_json == [keys |-> <<>>, ckey |-> <<>>, mkey |-> None, names |-> <<>>]

\* _read_records on one record: the json_db after it, or the exception that
\* leaves the loop.  type_str is the hex of key[0:4], so only the
\* startswith alternatives of eight or fewer digits can match.
read_record(json, key, value) ==
    IF SubSeq(key, 1, Min(4, Len(key))) = SubSeq(MKEY, 1, 4)
    THEN LET encrypted_key == read_string(value, 0)
             salt == read_string(value, encrypted_key.cursor)
             method == read_uint32(value, salt.cursor)
             iterations == read_uint32(value, method.cursor)
             other_params == read_string(value, iterations.cursor)
         IN IF encrypted_key.ok /\ salt.ok /\ method.ok /\ iterations.ok /\ other_params.ok
            THEN [ok |-> TRUE,
                  json |-> [json EXCEPT !.mkey = Some([nID |-> key[1],
                                encrypted_key |-> encrypted_key.value, salt |-> salt.value,
                                method |-> method.value, iterations |-> iterations.value])]]
            ELSE [ok |-> FALSE, json |-> json]
    ELSE IF SubSeq(key, 1, Min(4, Len(key))) = SubSeq(CKEY, 1, 4)
    THEN LET size == read_compact_size(key, 4)
             public_key == read_bytes(key, size.cursor, size.value)
             encrypted_private_key == read_string(value, 0)
         IN IF size.ok /\ encrypted_private_key.ok /\ public_key # <<>>
            THEN [ok |-> TRUE,
                  json |-> [json EXCEPT !.ckey = @ \o <<[pubkey |-> public_key,
                                encrypted_privkey |-> encrypted_private_key.value,
                                compressed |-> public_key[1] # 4,
                                addr |-> public_key_to_address(public_key)]>>]]
            ELSE [ok |-> TRUE, json |-> json]
    ELSE IF SubSeq(key, 1, Min(3, Len(key))) = SubSeq(KEY, 1, 3)
    THEN LET public_key == read_string(key, 0)
             nVersion == read_uint32(value, 0)
             created_time == read_uint32(value, 4)
             private_key == read_bytes(value, 8, 32)
         IN IF public_key.ok /\ nVersion.ok /\ created_time.ok /\ public_key.value # <<>>
            THEN [ok |-> TRUE,
                  json |-> [json EXCEPT !.keys = @ \o <<[pubkey |-> public_key.value,
                                hexsec |-> private_key,
                                sec |-> the({ private_key_to_wif(secret, public_key.value[1] # 4, 128) :
                                                 secret \in {private_key} }),
                                compressed |-> public_key.value[1] # 4,
                                addr |-> public_key_to_address(public_key.value)]>>]]
            ELSE [ok |-> FALSE, json |-> json]
    ELSE IF SubSeq(key, 1, Min(4, Len(key))) = SubSeq(NAME, 1, 4)
    THEN LET address_bytes == read_string(key, 0)
             name_bytes == read_string(value, 0)
         IN IF address_bytes.ok /\ name_bytes.ok
            THEN [ok |-> TRUE,
                  json |-> [json EXCEPT !.names =
                                put(@, public_key_to_address(address_bytes.value),
                                    name_bytes.value)]]
            ELSE [ok |-> FALSE, json |-> json]
    ELSE [ok |-> TRUE, json |-> json]

RECURSIVE read_records(_, _, _)
\* _read_records: the loop over cursor.next(), after n records
read_records(db, keys, n) ==
    IF n = 0 THEN [ok |-> TRUE, json |-> empty_json]
    ELSE the({ IF before.ok THEN read_record(before.json, keys[n], db[keys[n]]) ELSE before :
                  before \in {read_records(db, keys, n - 1)} })

\* the records _read_records classifies: cursor.next() raises DBNotFoundError
\* behind the last record, and the loop breaks on the record that brings
\* record_count to max_records, before classifying it
records_classified(keys) == Min(Len(keys), max_records - 1)

\* _decrypt_keys: json_db['mkey'] is the dictionary _read_records stored, and
\* json_db['mkey'][0] raises KeyError on it before anything is decrypted
decrypt_keys(json, passphrase) ==
    IF json.mkey = None THEN [ok |-> TRUE, json |-> json]
    ELSE [ok |-> FALSE, json |-> json]

\* read_wallet: any exception becomes WalletDBError
read_wallet(db, passphrase) ==
    the({ IF ~records.ok THEN [ret |-> Err("Failed to read wallet"), json |-> records.json]
          ELSE IF passphrase # <<>> /\ records.json.mkey # None
               THEN the({ [ret |-> (IF decrypted.ok THEN Ok(<<>>)
                                    ELSE Err("Failed to read wallet")),
                           json |-> decrypted.json] :
                             decrypted \in {decrypt_keys(records.json, passphrase)} })
          ELSE [ret |-> Ok(<<>>), json |-> records.json] :
             records \in { read_records(db, keys, records_classified(keys)) :
                              keys \in {sorted_keys(DOMAIN db)} } })

\* the private keys of the model's wallets and the WIF strings handed to
\* import_key: two keys of the main network and a string with a bad checksum
WalletKeys == <<[i \in 1..32 |-> i], [i \in 1..32 |-> (37 * i + 1) % 256]>>
Wifs ==
    { private_key_to_wif(WalletKeys[1], TRUE, 128),
      private_key_to_wif(WalletKeys[2], FALSE, 128),
      mangled(private_key_to_wif(WalletKeys[1], TRUE, 128), "last character replaced") }

\* wif_to_private_key(wif) under the default network, computed once per string
decoded_wif == [wif \in Wifs |-> wif_to_private_key(wif, 128)]

\* a scan that takes any key record for a record of the same public key
key_exists_by_type(db, public_key) ==
    \E key \in DOMAIN db : SubSeq(key, 1, Min(4, Len(key))) = KEY

\* import_key's scan for a record of the same public key
key_exists(db, public_key) ==
    \E key \in DOMAIN db :
        /\ SubSeq(key, 1, Min(4, Len(key))) = KEY
        /\ SubSeq(key, 5, Len(key)) = public_key

\* import_key(wif, label): the value returned or the error raised, the puts
\* made, and the store after them
import_key(db, wif, label) ==
    LET decoded == decoded_wif[wif]
        private_key == decoded.value[1]
        compressed == decoded.value[2]
        public_key == private_key_to_public_key(private_key, compressed)
        address == public_key_to_address(public_key)
        puts == <<[key |-> KEY \o public_key,
                   value |-> <<1, 0, 0, 0, 1, 0, 0, 0>> \o private_key]>>
                \o (IF label # <<>> THEN <<[key |-> NAME \o label, value |-> address]>>
                    ELSE <<>>)
    IN IF ~decoded.ok THEN [ret |-> Err("Failed to import key"), puts |-> <<>>, db |-> db]
       ELSE IF key_exists(db, public_key) THEN [ret |-> Ok(address), puts |-> <<>>, db |-> db]
       ELSE [ret |-> Ok(address), puts |-> puts, db |-> apply_puts(db, puts)]

\* struct.pack("<I", 1) + struct.pack("<I", 1) + b"\x00" * 32
dummy_value == <<1, 0, 0, 0, 1, 0, 0, 0>> \o [i \in 1..32 |-> 0]

RECURSIVE watch_only_puts(_, _)
\* create_watch_only's loop: the puts it makes for the records in cursor order
watch_only_puts(db, keys) ==
    IF keys = <<>> THEN <<>>
    ELSE LET key == Head(keys)
         IN (IF startswith(key, KEY) THEN <<[key |-> key, value |-> dummy_value]>>
             ELSE IF startswith(key, CKEY) THEN <<>>
             ELSE IF startswith(key, MKEY) THEN <<>>
             ELSE <<[key |-> key, value |-> db[key]]>>)
            \o watch_only_puts(db, Tail(keys))

RECURSIVE backup_puts(_, _)
\* create_backup's loop: every record is put
backup_puts(db, keys) ==
    IF keys = <<>> THEN <<>>
    ELSE <<[key |-> Head(keys), value |-> db[Head(keys)]]>> \o backup_puts(db, Tail(keys))

\* os.path.basename
basename(path) == path.name

\* DB.open(os.path.basename(path), "main", DB_BTREE, DB_CREATE) in tmp_dir:
\* the store of that name if there is one, a new empty store otherwise
open_create(tmp, name) == IF name \in DOMAIN tmp THEN tmp[name] ELSE <<>>

(* ---- inputs ---- *)
Label == <<76>>
Passphrase == <<112, 119>>

key_record(private_key, compressed) ==
    [key |-> KEY \o private_key_to_public_key(private_key, compressed),
     value |-> <<1, 0, 0, 0, 1, 0, 0, 0>> \o private_key]
ckey_record(private_key, compressed) ==
    [key |-> CKEY \o private_key_to_public_key(private_key, compressed),
     value |-> <<3, 200, 201, 202>>]
mkey_record ==
    [key |-> MKEY \o <<1, 0, 0, 0>>,
     value |-> <<2, 7, 8>> \o <<1, 5>> \o <<0, 0, 0, 0>> \o <<16, 39, 0, 0>> \o <<0>>]
name_record == [key |-> NAME \o Label, value |-> <<0, 9, 9, 9>>]
version_record == [key |-> VERSION, value |-> <<1, 0, 0, 0>>]

\* a wallet of max_records key records
LargeWallet ==
    apply_puts(<<>>, [j \in 1..max_records |->
                         key_record([i \in 1..32 |-> (i + 40 + j) % 256], TRUE)])

\* a wallet with two damaged records between sound ones: an encrypted-key
\* record with an empty value and a key record whose value ends inside nVersion
DamagedWallet ==
    apply_puts(<<>>, <<version_record,
                       [key |-> CKEY \o <<2, 50, 51>>, value |-> <<>>],
                       key_record(WalletKeys[1], TRUE),
                       [key |-> KEY \o <<4, 60, 61>>, value |-> <<1, 0, 0>>],
                       key_record(WalletKeys[2], FALSE),
                       name_record>>)

\* a new wallet, a plain wallet, an encrypted wallet, a wallet encrypted
\* after keys were created, a wallet of many keys and a damaged wallet
Wallets ==
    { apply_puts(<<>>, <<version_record>>),
      apply_puts(<<>>, <<version_record, key_record(WalletKeys[1], TRUE), name_record>>),
      apply_puts(<<>>, <<version_record, mkey_record, ckey_record(WalletKeys[1], TRUE),
                         ckey_record(WalletKeys[2], FALSE)>>),
      apply_puts(<<>>, <<version_record, mkey_record, key_record(WalletKeys[2], FALSE),
                         ckey_record(WalletKeys[1], TRUE), name_record>>),
      LargeWallet,
      DamagedWallet }

Labels == {<<>>, Label}
Paths == { [dir |-> "backups", name |-> "wallet.dat"],
           [dir |-> "watch", name |-> "wallet.dat"],
           [dir |-> "watch", name |-> "watch.dat"] }
Passphrases == {<<>>, Passphrase}

NoArgs == [wif |-> <<>>, label |-> <<>>, path |-> [dir |-> "", name |-> ""],
           passphrase |-> <<>>]

WInit ==
    /\ w_op = "none"
    /\ w_db = <<>>
    /\ w_tmp = <<>>
    /\ w_puts = <<>>
    /\ w_ret = Ok(<<>>)
    /\ w_json = empty_json
    /\ w_args = NoArgs
    /\ w_nops = 0

\* WalletDB(wallet_path) and open() on an existing wallet file
WOpen ==
    /\ w_op = "none"
    /\ w_op' = "open"
    /\ w_db' \in Wallets
    /\ UNCHANGED <<w_tmp, w_puts, w_ret, w_json, w_args, w_nops>>

WImportKey ==
    /\ w_op # "none" /\ w_nops < MaxOps
    /\ \E wif \in Wifs, label \in Labels :
          LET call == import_key(w_db, wif, label)
          IN /\ w_op' = "import_key"
             /\ w_args' = [NoArgs EXCEPT !.wif = wif, !.label = label]
             /\ w_db' = call.db
             /\ w_puts' = call.puts
             /\ w_ret' = call.ret
    /\ w_nops' = w_nops + 1
    /\ UNCHANGED <<w_tmp, w_json>>

WCreateWatchOnly ==
    /\ w_op # "none" /\ w_nops < MaxOps
    /\ \E path \in Paths :
          LET puts == watch_only_puts(w_db, sorted_keys(DOMAIN w_db))
          IN /\ w_op' = "create_watch_only"
             /\ w_args' = [NoArgs EXCEPT !.path = path]
             /\ w_tmp' = put(w_tmp, basename(path),
                           apply_puts(open_create(w_tmp, basename(path)), puts))
             /\ w_puts' = puts
             /\ w_ret' = Ok(<<>>)
    /\ w_nops' = w_nops + 1
    /\ UNCHANGED <<w_db, w_json>>

WCreateBackup ==
    /\ w_op # "none" /\ w_nops < MaxOps
    /\ \E path \in Paths :
          LET puts == backup_puts(w_db, sorted_keys(DOMAIN w_db))
          IN /\ w_op' = "create_backup"
             /\ w_args' = [NoArgs EXCEPT !.path = path]
             /\ w_tmp' = put(w_tmp, basename(path),
                           apply_puts(open_create(w_tmp, basename(path)), puts))
             /\ w_puts' = puts
             /\ w_ret' = Ok(<<>>)
    /\ w_nops' = w_nops + 1
    /\ UNCHANGED <<w_db, w_json>>

WReadWallet ==
    /\ w_op # "none" /\ w_nops < MaxOps
    /\ \E passphrase \in Passphrases :
          LET call == read_wallet(w_db, passphrase)
          IN /\ w_op' = "read_wallet"
             /\ w_args' = [NoArgs EXCEPT !.passphrase = passphrase]
             /\ w_json' = call.json
             /\ w_ret' = call.ret
    /\ w_puts' = <<>>
    /\ w_nops' = w_nops + 1
    /\ UNCHANGED <<w_db, w_tmp>>

(***************************************************************************)
(* pywallet_refactored/utils/datastream.py: a BCDataStream object and the   *)
(* calls made on it.                                                       *)
(***************************************************************************)
MaxCalls == 4
MaxStream == 10

\* the byte strings written to a stream: plain bytes and compact sizes of
\* every width, whole and cut short
DsData ==
    { <<>>, <<5>>, <<252, 7>>, <<253>>, <<253, 1, 2>>, <<253, 1>>,
      <<254, 4, 3, 2, 1>>, <<254, 4, 3>>,
      <<255, 8, 7, 6, 5, 0, 0, 0, 0>>, <<255, 8, 7, 6>> }

DsLengths == {0, 1, 2, 4}

\* the streams of the model: every four- or eight-byte compact size in them is
\* below 2^31, the largest integer of the model checker
Representable(input) ==
    \A i \in 1..Len(input) :
        input[i] \in {254, 255} =>
            \A j \in 4..(IF input[i] = 254 THEN 4 ELSE 8) :
                i + j <= Len(input) => input[i + j] < (IF j = 4 THEN 128 ELSE 1)

DsInit ==
    /\ ds_op = "none"
    /\ ds_input = None
    /\ ds_read_cursor = 0
    /\ ds_before = 0
    /\ ds_length = 0
    /\ ds_out = Ok(<<>>)
    /\ ds_ncalls = 0

DsClear ==
    /\ ds_ncalls < MaxCalls
    /\ ds_op' = "clear"
    /\ ds_input' = None
    /\ ds_read_cursor' = 0
    /\ ds_before' = ds_read_cursor
    /\ ds_out' = Ok(<<>>)
    /\ ds_ncalls' = ds_ncalls + 1
    /\ UNCHANGED ds_length

DsWrite ==
    /\ ds_ncalls < MaxCalls
    /\ \E data \in DsData :
          LET written == IF ds_input = None THEN data ELSE Get(ds_input) \o data
          IN /\ Len(written) <= MaxStream
             /\ Representable(written)
             /\ ds_input' = Some(written)
    /\ ds_op' = "write"
    /\ ds_before' = ds_read_cursor
    /\ ds_out' = Ok(<<>>)
    /\ ds_ncalls' = ds_ncalls + 1
    /\ UNCHANGED <<ds_read_cursor, ds_length>>

\* subscripting None raises TypeError before the cursor moves
DsReadBytes ==
    /\ ds_ncalls < MaxCalls
    /\ \E length \in DsLengths :
          /\ ds_length' = length
          /\ IF ds_input = None
             THEN /\ ds_out' = Err("TypeError")
                  /\ UNCHANGED ds_read_cursor
             ELSE /\ ds_out' = Ok(read_bytes(Get(ds_input), ds_read_cursor, length))
                  /\ ds_read_cursor' = ds_read_cursor + length
    /\ ds_op' = "read_bytes"
    /\ ds_before' = ds_read_cursor
    /\ ds_ncalls' = ds_ncalls + 1
    /\ UNCHANGED ds_input

DsReadCompactSize ==
    /\ ds_ncalls < MaxCalls
    /\ IF ds_input = None
       THEN /\ ds_out' = Err("TypeError")
            /\ UNCHANGED ds_read_cursor
       ELSE LET size == read_compact_size(Get(ds_input), ds_read_cursor)
            IN /\ ds_out' = IF size.ok THEN Ok(size.value)
                            ELSE IF size.cursor = ds_read_cursor THEN Err("IndexError")
                            ELSE Err("struct.error")
               /\ ds_read_cursor' = size.cursor
    /\ ds_op' = "read_compact_size"
    /\ ds_before' = ds_read_cursor
    /\ ds_ncalls' = ds_ncalls + 1
    /\ UNCHANGED <<ds_input, ds_length>>

(***************************************************************************)
(* wallet_brute_force.py: check_password on the bytes of an mkey record,   *)
(* and RecoveredMasterKey.decrypt of pywallet_refactored/recovery.py.      *)
(* PBKDF2-HMAC-SHA512 is replaced by a one-to-one map of passphrase and    *)
(* salt to a 32-byte key; AES is the stand-in of crypto/aes.py above.      *)
(***************************************************************************)
\* iv = b'\x00' * 16
zero_iv == [i \in 1..BlockSize |-> 0]

\* hashlib.pbkdf2_hmac('sha512', password, salt, iterations, 32)
derive_key(password, salt, iterations) ==
    [i \in 1..KeySize |-> (password * 31 + salt * 7 + iterations + i * (password + 2)) % 256]

\* decrypt_aes of wallet_brute_force.py: cipher.decrypt under the zero IV
\* (raises on data that is not a multiple of the block size)
cipher_decrypt(encrypted_data, key) ==
    IF Len(encrypted_data) % BlockSize # 0
    THEN Err("Data must be padded to 16 byte boundary in CBC mode")
    ELSE Ok(cbc_decrypt(key, zero_iv, encrypted_data))

\* the checks of check_password without the one on the entropy
checks_without_entropy(decrypted) ==
    IF decrypted = <<>> THEN Err("index out of range")
    ELSE LET padding_byte == decrypted[Len(decrypted)]
             expected_len == Len(decrypted) - padding_byte
         IN IF ~(1 <= padding_byte /\ padding_byte <= 16) THEN Ok(FALSE)
            ELSE IF expected_len # 32 THEN Ok(FALSE)
            ELSE IF SubSeq(decrypted, expected_len + 1, Len(decrypted))
                        # [i \in 1..padding_byte |-> padding_byte]
                 THEN Ok(FALSE)
            ELSE IF \A i \in 1..expected_len : decrypted[i] = 0 THEN Ok(FALSE)
            ELSE Ok(TRUE)

\* the body of check_password's try block, from the padding byte on
checks(decrypted) ==
    IF decrypted = <<>> THEN Err("index out of range")
    ELSE LET padding_byte == decrypted[Len(decrypted)]
             expected_len == Len(decrypted) - padding_byte
         IN IF ~(1 <= padding_byte /\ padding_byte <= 16) THEN Ok(FALSE)
            ELSE IF expected_len # 32 THEN Ok(FALSE)
            ELSE IF SubSeq(decrypted, expected_len + 1, Len(decrypted))
                        # [i \in 1..padding_byte |-> padding_byte]
                 THEN Ok(FALSE)
            ELSE IF \A i \in 1..expected_len : decrypted[i] = 0 THEN Ok(FALSE)
            ELSE IF Cardinality({decrypted[i] : i \in 1..Min(8, expected_len)}) < 3
                 THEN Ok(FALSE)
            ELSE Ok(TRUE)

\* check_password(password, encrypted_key, salt, iterations): the first
\* element of the pair it returns; `except Exception` turns an error into False
check_password_on(password, encrypted_key, salt, iterations) ==
    LET decrypted == cipher_decrypt(encrypted_key, derive_key(password, salt, iterations))
    IN IF ~decrypted.ok THEN Ok(FALSE)
       ELSE IF ~checks(decrypted.value).ok THEN Ok(FALSE)
       ELSE checks(decrypted.value)

\* RecoveredMasterKey.decrypt(passphrase)
RecoveredMasterKey_decrypt(encrypted_key, salt, iterations, passphrase) ==
    decrypt_aes(encrypted_key, derive_key(passphrase, salt, iterations))

\* passphrases and salts, as numbers; nDeriveIterations
MkPasswords == {1, 2, 3}
MkSalts == {0, 5}
MkIterations == {4, 25000}
\* master secrets: of good entropy, all zero, of two and of three byte
\* values in the first 8 bytes
MkSecrets ==
    { [i \in 1..32 |-> (11 * i + 1) % 256], [i \in 1..32 |-> 0],
      [i \in 1..32 |-> IF i <= 8 THEN i % 2 ELSE i],
      [i \in 1..32 |-> IF i <= 8 THEN i % 3 ELSE 0] }
\* what the wallet encrypted: a padded master secret, or something else of
\* whole blocks
MkPlaintexts ==
    { pkcs7_pad(secret) : secret \in MkSecrets }
        \cup { pkcs7_pad([i \in 1..n |-> (11 * i + 1) % 256]) : n \in {16, 31, 47, 48} }
        \cup { [i \in 1..32 |-> (11 * i + 1) % 256] \o tail_bytes(BlockSize, p, broken) :
                  p \in {0, 16, 17}, broken \in {0, 15} }
\* encrypted_key of the mkey record: written under the first passphrase, or damaged
MkEncryptedKeys(salt, iterations) ==
    { cbc_encrypt(derive_key(1, salt, iterations), zero_iv, plain) : plain \in MkPlaintexts }
        \cup { <<>>, [i \in 1..20 |-> i] }

MkInit ==
    /\ mk_op = "none"
    /\ mk_encrypted_key = <<>>
    /\ mk_salt = 0
    /\ mk_iterations = 0
    /\ mk_password = 0
    /\ mk_decrypted = None
    /\ mk_out = Err("")
    /\ mk_master = Err("")

\* a call of check_password
MkCheckPassword ==
    /\ mk_op = "none"
    /\ \E salt \in MkSalts, iterations \in MkIterations, password \in MkPasswords :
         \E encrypted_key \in MkEncryptedKeys(salt, iterations) :
            /\ mk_op' = "check_password"
            /\ mk_encrypted_key' = encrypted_key
            /\ mk_salt' = salt
            /\ mk_iterations' = iterations
            /\ mk_password' = password
            /\ mk_decrypted' =
                  (LET decrypted == cipher_decrypt(encrypted_key,
                                                   derive_key(password, salt, iterations))
                   IN IF decrypted.ok THEN Some(decrypted.value) ELSE None)
            /\ mk_out' = check_password_on(password, encrypted_key, salt, iterations)
    /\ UNCHANGED mk_master

\* RecoveredMasterKey.decrypt with the passphrase check_password was given
MkDecrypt ==
    /\ mk_op = "check_password"
    /\ mk_op' = "decrypt"
    /\ mk_master' = RecoveredMasterKey_decrypt(mk_encrypted_key, mk_salt, mk_iterations,
                                               mk_password)
    /\ UNCHANGED <<mk_encrypted_key, mk_salt, mk_iterations, mk_password, mk_decrypted, mk_out>>

(***************************************************************************)
(* pywallet_refactored/db/wallet.py: the open/close state of a WalletDB     *)
(* handler.  What Berkeley DB does with the files is an input of each call: *)
(* whether the wallet file exists, whether DBEnv.open and DB.open raise     *)
(* DBError.  A DB or DBEnv object is true in a condition, opened or not.    *)
(***************************************************************************)
\* most calls on one handler
MaxHandleCalls == 4

\* WalletDB.open: self.db and self.db_env after the call, what it returned
\* or raised, and whether it called DB.open
open(db, db_env, exists, env_fails, db_fails) ==
    IF db # "None"
    THEN [db |-> db, db_env |-> db_env, ret |-> Ok(<<>>), db_open_called |-> FALSE]
    ELSE IF ~exists
    THEN [db |-> db, db_env |-> db_env, ret |-> Err("Wallet file not found"),
          db_open_called |-> FALSE]
    ELSE LET env == IF env_fails THEN "DBEnv" ELSE "open DBEnv"
         IN IF db_fails
            THEN [db |-> "DB", db_env |-> env,
                  ret |-> Err("Failed to open wallet database"), db_open_called |-> TRUE]
            ELSE [db |-> "open DB", db_env |-> env, ret |-> Ok(<<>>),
                  db_open_called |-> TRUE]

\* WalletDB.close
close(db, db_env) == [db |-> "None", db_env |-> "None", ret |-> Ok(<<>>)]

\* WalletDB.read_wallet: open() unless self.db is set, then the pass over the
\* records, which needs a cursor of an open DB
read_wallet_on(db, db_env, exists, env_fails, db_fails) ==
    LET opened == IF db = "None" THEN open(db, db_env, exists, env_fails, db_fails)
                  ELSE [db |-> db, db_env |-> db_env, ret |-> Ok(<<>>),
                        db_open_called |-> FALSE]
    IN IF ~opened.ret.ok THEN opened
       ELSE IF opened.db # "open DB"
            THEN [opened EXCEPT !.ret = Err("Failed to read wallet")]
       ELSE opened

HInit ==
    /\ h_op = "none"
    /\ h_db = "None"
    /\ h_db_env = "None"
    /\ h_exists = TRUE
    /\ h_opens = 0
    /\ h_ret = Ok(<<>>)
    /\ h_ncalls = 0

\* a call of open()
HOpen ==
    /\ h_ncalls < MaxHandleCalls
    /\ \E exists \in BOOLEAN, env_fails \in BOOLEAN, db_fails \in BOOLEAN :
          LET call == open(h_db, h_db_env, exists, env_fails, db_fails)
          IN /\ h_op' = "open"
             /\ h_db' = call.db
             /\ h_db_env' = call.db_env
             /\ h_exists' = exists
             /\ h_opens' = h_opens + (IF call.db_open_called THEN 1 ELSE 0)
             /\ h_ret' = call.ret
    /\ h_ncalls' = h_ncalls + 1

\* a call of close()
HClose ==
    /\ h_ncalls < MaxHandleCalls
    /\ h_op' = "close"
    /\ h_db' = close(h_db, h_db_env).db
    /\ h_db_env' = close(h_db, h_db_env).db_env
    /\ h_ret' = close(h_db, h_db_env).ret
    /\ h_ncalls' = h_ncalls + 1
    /\ UNCHANGED <<h_exists, h_opens>>

\* a call of read_wallet()
HReadWallet ==
    /\ h_ncalls < MaxHandleCalls
    /\ \E exists \in BOOLEAN, env_fails \in BOOLEAN, db_fails \in BOOLEAN :
          LET call == read_wallet_on(h_db, h_db_env, exists, env_fails, db_fails)
          IN /\ h_op' = "read_wallet"
             /\ h_db' = call.db
             /\ h_db_env' = call.db_env
             /\ h_exists' = exists
             /\ h_opens' = h_opens + (IF call.db_open_called THEN 1 ELSE 0)
             /\ h_ret' = call.ret
    /\ h_ncalls' = h_ncalls + 1

(***************************************************************************)
(* Specifications: one per subsystem, the other subsystems stay idle.      *)
(***************************************************************************)
Init == BFInit /\ ScInit /\ AesInit /\ WifInit /\ B58Init /\ WInit /\ DsInit /\ MkInit
            /\ HInit

\* the variables a subsystem's steps leave alone
OutsideBF == <<scVars, aesVars, wifVars, b58Vars, wVars, dsVars, mkVars, hVars>>
OutsideScan == <<bfVars, aesVars, wifVars, b58Vars, wVars, dsVars, mkVars, hVars>>
OutsideAes == <<bfVars, scVars, wifVars, b58Vars, wVars, dsVars, mkVars, hVars>>
OutsideWif == <<bfVars, scVars, aesVars, b58Vars, wVars, dsVars, mkVars, hVars>>
OutsideB58 == <<bfVars, scVars, aesVars, wifVars, wVars, dsVars, mkVars, hVars>>
OutsideWallet == <<bfVars, scVars, aesVars, wifVars, b58Vars, dsVars, mkVars, hVars>>
OutsideMasterKey == <<bfVars, scVars, aesVars, wifVars, b58Vars, wVars, dsVars, hVars>>
OutsideHandle == <<bfVars, scVars, aesVars, wifVars, b58Vars, wVars, dsVars, mkVars>>
OutsideStream == <<bfVars, scVars, aesVars, wifVars, b58Vars, wVars, mkVars, hVars>>

NextBF ==
    \/ BfStartGenerated /\ UNCHANGED OutsideBF
    \/ BfStartWordlist /\ UNCHANGED OutsideBF
    \/ BfBatchSerial /\ UNCHANGED OutsideBF
    \/ BfBatchParallel /\ UNCHANGED OutsideBF
    \/ BfWorkerStart /\ UNCHANGED OutsideBF
    \/ BfWorkerFinish /\ UNCHANGED OutsideBF
    \/ BfCollectMatch /\ UNCHANGED OutsideBF
    \/ BfCollectEmpty /\ UNCHANGED OutsideBF
    \/ BfJoin /\ UNCHANGED OutsideBF
    \/ BfReturn /\ UNCHANGED OutsideBF
\* the pool runs every future it has started and the coordinator never waits
\* for anything else: every enabled step is eventually taken
SpecBF == Init /\ [][NextBF]_vars /\ WF_vars(NextBF)

NextScan ==
    \/ ScStart /\ UNCHANGED OutsideScan
    \/ ScanFileChunk /\ UNCHANGED OutsideScan
    \/ ScanFileReadError /\ UNCHANGED OutsideScan
    \/ ScanFileReturn /\ UNCHANGED OutsideScan
    \/ FindPatternsChunk /\ UNCHANGED OutsideScan
    \/ FindPatternsReadError /\ UNCHANGED OutsideScan
    \/ FindPatternsReturn /\ UNCHANGED OutsideScan
SpecScan == Init /\ [][NextScan]_vars

NextAes ==
    \/ AesEncrypt /\ UNCHANGED OutsideAes
    \/ AesDecrypt /\ UNCHANGED OutsideAes
    \/ AesDecryptEncrypted /\ UNCHANGED OutsideAes
SpecAes == Init /\ [][NextAes]_vars

NextWif ==
    \/ WifEncode /\ UNCHANGED OutsideWif
    \/ WifDecode /\ UNCHANGED OutsideWif
    \/ WifDecodeMangled /\ UNCHANGED OutsideWif
    \/ WifDecodePayload /\ UNCHANGED OutsideWif
SpecWif == Init /\ [][NextWif]_vars

NextB58 ==
    \/ B58Encode /\ UNCHANGED OutsideB58
    \/ B58Decode /\ UNCHANGED OutsideB58
    \/ B58DecodeCheck /\ UNCHANGED OutsideB58
    \/ IsValidAddress /\ UNCHANGED OutsideB58
    \/ IsValidWif /\ UNCHANGED OutsideB58
SpecB58 == Init /\ [][NextB58]_vars

NextWallet ==
    \/ WOpen /\ UNCHANGED OutsideWallet
    \/ WImportKey /\ UNCHANGED OutsideWallet
    \/ WCreateWatchOnly /\ UNCHANGED OutsideWallet
    \/ WCreateBackup /\ UNCHANGED OutsideWallet
    \/ WReadWallet /\ UNCHANGED OutsideWallet
SpecWallet == Init /\ [][NextWallet]_vars

NextStream ==
    \/ DsClear /\ UNCHANGED OutsideStream
    \/ DsWrite /\ UNCHANGED OutsideStream
    \/ DsReadBytes /\ UNCHANGED OutsideStream
    \/ DsReadCompactSize /\ UNCHANGED OutsideStream

SpecStream == Init /\ [][NextStream]_vars

NextMasterKey ==
    \/ MkCheckPassword /\ UNCHANGED OutsideMasterKey
    \/ MkDecrypt /\ UNCHANGED OutsideMasterKey
SpecMasterKey == Init /\ [][NextMasterKey]_vars

NextHandle ==
    \/ HOpen /\ UNCHANGED OutsideHandle
    \/ HClose /\ UNCHANGED OutsideHandle
    \/ HReadWallet /\ UNCHANGED OutsideHandle
SpecHandle == Init /\ [][NextHandle]_vars

(***************************************************************************)
(* Properties of the passphrase search engine.                             *)
(***************************************************************************)
RECURSIVE search_space_size(_, _, _)
\* sum(len(charset) ** length for length in range(min_length, max_length + 1))
search_space_size(charset, min_length, max_length) ==
    IF min_length > max_length THEN 0
    ELSE Pow(Len(charset), min_length)
            + search_space_size(charset, min_length + 1, max_length)

\* the candidates of the lengths min_length..max_length over the charset
SearchSpace ==
    UNION {Elems(product(bf_charset, n)) : n \in bf_min_length..bf_max_length}

\* smart off, no checkpoint, max_consecutive = 0
ExhaustiveMode ==
    bf_mode = "exhaustive" /\ bf_checkpoint = None /\ bf_max_consecutive = 0

\* the true passphrase is a candidate of this pass
SecretInSpace ==
    /\ bf_secret # None
    /\ IF bf_mode = "wordlist" THEN Get(bf_secret) \in Elems(bf_wordlist)
       ELSE /\ Get(bf_secret) \in SearchSpace
            /\ passes_filter(Get(bf_secret), bf_max_consecutive)

DuplicateFree(seq) == Cardinality(Elems(seq)) = Len(seq)

\* C1: in exhaustive mode over a space that holds the passphrase the engine
\* terminates, returns that passphrase, and has counted at most
\* |search space| attempts.
C1_ExhaustiveFindsPassphrase ==
    /\ [](ExhaustiveMode /\ SecretInSpace /\ bf_pc = "done"
            => /\ bf_ret = bf_secret
               /\ bf_attempts <= search_space_size(bf_charset, bf_min_length, bf_max_length))
    /\ ((ExhaustiveMode /\ SecretInSpace) ~> bf_pc = "done")

C1_Witness ==
    /\ ExhaustiveMode /\ SecretInSpace /\ bf_pc = "done"
    /\ bf_ret = bf_secret
    /\ bf_batch_num > 2
    /\ bf_processes > 1

C7_TestedExactlyOnce ==
    (bf_pc = "done" /\ SecretInSpace)
        => CopiesIn(Get(bf_secret), bf_tested) + CopiesIn(Get(bf_secret), bf_rechecked) = 1

\* C7 amended: the true passphrase is never skipped; in exhaustive mode over a
\* charset without repeated characters exactly one process_chunk call tests
\* it, and the coordinator's double-check passes it to check_password once
\* more; in the other modes it may be presented again.
C7_NeverSkipped ==
    (bf_pc = "done" /\ SecretInSpace)
        => /\ CopiesIn(Get(bf_secret), bf_tested) >= 1
           /\ CopiesIn(Get(bf_secret), bf_rechecked) >= 1
           /\ (bf_mode = "exhaustive" /\ DuplicateFree(bf_charset))
                => /\ CopiesIn(Get(bf_secret), bf_tested) = 1
                   /\ CopiesIn(Get(bf_secret), bf_rechecked) = 1

C7_Witness ==
    /\ bf_pc = "done" /\ SecretInSpace
    /\ bf_mode = "smart"
    /\ CopiesIn(Get(bf_secret), bf_tested) > 1
    /\ bf_processes > 1

\* C8: in exhaustive mode over a space without the passphrase the engine
\* terminates returning None, after every candidate of every length was
\* verified: attempts is the size of the space.
C8_ExhaustsSpace ==
    /\ [](ExhaustiveMode /\ ~SecretInSpace /\ bf_pc = "done"
            => /\ bf_ret = None
               /\ bf_attempts = search_space_size(bf_charset, bf_min_length, bf_max_length)
               /\ \A c \in SearchSpace : CopiesIn(c, bf_tested) >= 1
               /\ BagCardinality(bf_tested) = bf_attempts)
    /\ ((ExhaustiveMode /\ ~SecretInSpace) ~> bf_pc = "done")

C8_Witness ==
    /\ ExhaustiveMode /\ ~SecretInSpace /\ bf_pc = "done"
    /\ bf_ret = None
    /\ bf_attempts = 12
    /\ bf_processes > 1

\* the candidates a resumed run has to replay: the lengths from the
\* checkpoint's current_length to max_length, less what the filter rejects
ResumedSpace ==
    {c \in UNION {Elems(product(bf_charset, n)) :
                     n \in Get(bf_checkpoint).current_length..bf_max_length} :
        passes_filter(c, bf_max_consecutive)}

Resumed == bf_mode \in {"exhaustive", "smart"} /\ bf_checkpoint # None

longest_run(password) ==
    IF password = <<>> THEN 0
    ELSE Cardinality(CHOOSE run \in {i..j : i \in 1..Len(password), j \in 1..Len(password)} :
            /\ run # {}
            /\ \A k \in run : password[k] = password[CHOOSE m \in run : TRUE]
            /\ \A other \in {i..j : i \in 1..Len(password), j \in 1..Len(password)} :
                  (\A k \in other : \A m \in other : password[k] = password[m])
                      => Cardinality(other) <= Cardinality(run))

\* what the claim lets through the filter
within_limit(password) ==
    bf_max_consecutive = 0 \/ longest_run(password) <= bf_max_consecutive

Generated == bf_mode \in {"exhaustive", "smart"}

\* C22: with max_consecutive = N > 0 no candidate with a run of more than N
\* identical consecutive characters is passed to verification, in exhaustive
\* and in smart mode; every candidate of the space whose longest run is at
\* most N is generated, and every such candidate of a batch is handed to
\* process_chunk_parallel; with N = 0 nothing is filtered out.
C22_ConsecutiveFilter ==
    /\ [](Generated
            => /\ \A c \in BagToSet(bf_tested) : within_limit(c)
               /\ \A i \in 1..Len(bf_futures) :
                     \A k \in 1..Len(bf_futures[i].chunk) : within_limit(bf_futures[i].chunk[k])
               /\ (bf_pc = "loop" /\ bf_batch_num = 0)
                    => \A c \in SearchSpace :
                          within_limit(c) => \E i \in 1..Len(bf_queue) : c \in Elems(bf_queue[i]))
    /\ [][(Generated /\ bf_pc = "loop" /\ bf_batch_num' = bf_batch_num + 1)
            => LET kept == SelectSeq(Head(bf_queue), within_limit)
               IN IF bf_pc' = "collect"
                  THEN /\ bf_batch' = kept
                       /\ Flatten([i \in 1..Len(bf_futures') |-> bf_futures'[i].chunk]) = kept
                  ELSE bf_tested' = bf_tested (+) BagOfSeq(kept)]_vars

C22_Witness ==
    /\ bf_mode = "smart" /\ bf_pc = "done"
    /\ bf_max_consecutive = 1
    /\ bf_max_length = 2
    /\ \E c \in SearchSpace : longest_run(c) = 2 /\ CopiesIn(c, bf_tested) = 0
    /\ \E c \in SearchSpace : longest_run(c) = 1 /\ Len(c) = 2 /\ CopiesIn(c, bf_tested) >= 1

\* C28: at every point of a run, for every interleaving of worker completions
\* and cancellations, attempts counts the candidates on which check_password
\* was executed in this run by a worker or by the serial path: no candidate
\* is counted that was never verified, and between two batches the counter
\* equals the number of candidates verified.
C28_AttemptsCountVerified ==
    /\ bf_attempts <= BagCardinality(bf_tested)
    /\ bf_pc \in {"loop", "done"} => bf_attempts = BagCardinality(bf_tested)

(***************************************************************************)
(* Properties of the master key verification.                              *)
(***************************************************************************)
\* C23: check_password reports True exactly when the zero-IV decryption of
\* the encrypted master key has a last byte p in 1..16, its last p bytes all
\* equal p, 32 bytes are left without them, these are not all zero and hold
\* at least 3 distinct values among the first 8; in every other case, an
\* internal error included, it returns False and does not raise.
C23_CheckPassword ==
    mk_op # "none"
        => /\ mk_out.ok
           /\ mk_out.value =
                 (/\ mk_decrypted # None
                  /\ Get(mk_decrypted) # <<>>
                  /\ LET plain == Get(mk_decrypted)
                         p == plain[Len(plain)]
                     IN /\ p \in 1..16
                        /\ \A i \in (Len(plain) - p + 1)..Len(plain) : plain[i] = p
                        /\ Len(plain) - p = 32
                        /\ \E i \in 1..32 : plain[i] # 0
                        /\ \E i, j, k \in 1..8 :
                              plain[i] # plain[j] /\ plain[j] # plain[k] /\ plain[i] # plain[k])

C23_Witness ==
    /\ mk_op = "check_password"
    /\ mk_out = Ok(TRUE)
    /\ Len(mk_encrypted_key) = 48
    /\ Cardinality({Get(mk_decrypted)[i] : i \in 1..8}) = 3

\* C29: a passphrase check_password accepts makes RecoveredMasterKey.decrypt
\* succeed and return the 32-byte master secret check_password validated.
C29_VerifierAgreesWithDecrypt ==
    (mk_op = "decrypt" /\ mk_out = Ok(TRUE))
        => /\ mk_master.ok
           /\ Len(mk_master.value) = 32
           /\ mk_master.value = SubSeq(Get(mk_decrypted), 1, 32)

(***************************************************************************)
(* Properties of the scanners.                                             *)
(***************************************************************************)
\* the planted signature lies across the end of a chunk
SpansChunkBoundary ==
    \E b \in 1..(FileSize \div ChunkSize) :
        /\ sc_planted.at < b * ChunkSize
        /\ b * ChunkSize < sc_planted.at + Len(signature(sc_planted.kind))

\* C2: a planted unencrypted-key signature that starts at offset N and
\* extends across a chunk boundary is reported exactly once, at offset N.
C2_BoundaryMatchReported ==
    (sc_pc = "done" /\ sc_errors = 0 /\ sc_planted.kind = "keys" /\ SpansChunkBoundary)
        => sc_results["keys"] = <<sc_planted.at>>

\* the planted signature lies within one chunk, and the read of that chunk
\* did not fail
InReadableChunk ==
    LET chunk == sc_planted.at \div ChunkSize
    IN /\ sc_planted.at + Len(signature(sc_planted.kind)) <= (chunk + 1) * ChunkSize
       /\ \A i \in 1..Len(sc_skipped) : sc_skipped[i] # chunk * ChunkSize

\* C20: when the read of one chunk fails the scan is not aborted: the chunk is
\* skipped, the scan goes on behind it, and it ends returning the matches of
\* the chunks that could be read.
C20_ReadErrorSkipsChunk ==
    sc_errors > 0
        => /\ sc_pc # "failed"
           /\ \A i \in 1..Len(sc_skipped) :
                 sc_offset = sc_skipped[i] + Min(ChunkSize, sc_size - sc_skipped[i])
                 \/ sc_offset > sc_skipped[i] + ChunkSize - 1
           /\ (sc_pc = "done" /\ InReadableChunk)
                 => Len(sc_results[sc_planted.kind]) = 1

\* C25: every occurrence of one of the three signatures that scan_file finds
\* inside a chunk yields exactly one recovered entity in the result list of
\* its own kind, and none in the list of another kind.
C25_EveryMatchRecovered ==
    (sc_engine = "scan_file" /\ sc_pc = "done" /\ sc_errors = 0 /\ InReadableChunk)
        => \A k \in DOMAIN sc_results :
              Len(sc_results[k]) = IF k = sc_planted.kind THEN 1 ELSE 0

\* C26: every offset find_patterns reports for a pattern is the position in
\* the file at which an occurrence of the pattern starts, and an occurrence
\* that lies within one chunk is reported exactly once.
C26_OffsetsAreAbsolute ==
    (sc_engine = "find_patterns" /\ sc_pc = "done" /\ sc_errors = 0)
        => /\ \A k \in DOMAIN sc_results :
                 \A i \in 1..Len(sc_results[k]) :
                    /\ sc_results[k][i] + Len(magic(k)) <= Len(sc_file)
                    /\ SubSeq(sc_file, sc_results[k][i] + 1,
                              sc_results[k][i] + Len(magic(k))) = magic(k)
           /\ InReadableChunk => sc_results[sc_planted.kind] = <<sc_planted.at>>

(***************************************************************************)
(* Properties of the passphrase cipher.                                    *)
(***************************************************************************)
\* PKCS#7: the last byte p is in 1..16 and the last p bytes are all p
valid_pkcs7(decrypted) ==
    /\ decrypted # <<>>
    /\ LET p == decrypted[Len(decrypted)]
       IN /\ p \in 1..BlockSize
          /\ p <= Len(decrypted)
          /\ \A i \in (Len(decrypted) - p + 1)..Len(decrypted) : decrypted[i] = p

\* C3: decrypt_aes fails with an invalid-padding error whenever the last
\* decrypted byte p is not in 1..16 or the last p bytes are not all p.
C3_InvalidPaddingRejected ==
    (aes_op = "decrypt" /\ aes_plain # <<>> /\ ~valid_pkcs7(aes_plain))
        => aes_out = Err("Invalid padding")

\* C15: decrypt_aes(encrypt_aes(data, key, iv), key) = data for every data
\* string, whole blocks included, every 32-byte key and every 16-byte IV.
C15_AesRoundTrip ==
    (aes_op = "decrypt" /\ aes_prev # <<>> /\ aes_prev[1] = aes_key)
        => aes_out = Ok(aes_prev[2])

\* two whole blocks of data, encrypted and decrypted under the same key
C15_Witness ==
    /\ aes_op = "decrypt" /\ aes_prev # <<>> /\ aes_prev[1] = aes_key
    /\ Len(aes_prev[2]) = 2 * BlockSize
    /\ Len(aes_data) = 4 * BlockSize
    /\ aes_out.ok

(***************************************************************************)
(* Properties of the key codec.                                            *)
(***************************************************************************)
\* C10: wif_to_private_key(private_key_to_wif(k, compressed)) returns
\* (k, compressed) under the same network parameters.
C10_WifRoundTrip ==
    (wif_op = "decode" /\ ~wif_mangled) => wif_out = Ok(<<wif_key, wif_compressed>>)

C10_Witness ==
    /\ wif_op = "decode" /\ ~wif_mangled
    /\ wif_network = 0
    /\ wif_compressed
    /\ wif_key = [i \in 1..PrivateKeyLen |-> 0]
    /\ wif_out = Ok(<<wif_key, TRUE>>)

(***************************************************************************)
(* Properties of the wallet record store                                   *)
(***************************************************************************)
records_of(db, prefix) == {key \in DOMAIN db : startswith(key, prefix)}

\* C4: after read_wallet with a non-empty passphrase on a wallet holding a
\* master key, the call returns: with a key entry for every encrypted key that
\* decrypts when the master key decrypts, and otherwise with the entities
\* decoded so far (the master key and every encrypted-key record) and no key
\* decrypted.
C4_DecodePassReturns ==
    (w_op = "read_wallet" /\ w_args.passphrase # <<>> /\ records_of(w_db, MKEY) # {})
        => /\ w_ret.ok
           /\ w_json.mkey # None
           /\ Len(w_json.ckey) = Cardinality(records_of(w_db, CKEY))
           /\ Len(w_json.keys) >= Cardinality(records_of(w_db, KEY))

\* C5: the output of create_watch_only holds no ckey and no mkey record, holds
\* every key record of the source under its key with a private-key field of 32
\* zero bytes, holds every other record of the source verbatim, and holds
\* nothing else, so that it is the same for two sources that differ only in
\* private-key material.
C5_WatchOnlyOutput ==
    (w_op = "create_watch_only" /\ w_ret.ok)
        => LET output == w_tmp[basename(w_args.path)]
               secret == records_of(w_db, CKEY) \cup records_of(w_db, MKEY)
           IN /\ records_of(output, CKEY) = {} /\ records_of(output, MKEY) = {}
              /\ DOMAIN output = DOMAIN w_db \ secret
              /\ \A key \in DOMAIN output :
                    IF startswith(key, KEY)
                    THEN SubSeq(output[key], 9, 40) = [i \in 1..32 |-> 0]
                    ELSE output[key] = w_db[key]

\* C18: the pass over the records reads and classifies every record in cursor
\* order and ends only when the cursor is exhausted, whatever the number of
\* records: when read_wallet has returned, json_db holds one key entry per
\* key record of the store, in the order of the cursor.
C18_EveryRecordClassified ==
    (w_op = "read_wallet" /\ w_ret.ok)
        => LET keys == sorted_keys(records_of(w_db, KEY))
           IN /\ Len(w_json.keys) = Len(keys)
              /\ \A i \in 1..Len(keys) :
                    i <= Len(w_json.keys) =>
                        w_json.keys[i].hexsec = SubSeq(w_db[keys[i]], 9, 40)

\* C19: a malformed record of any type is skipped and the pass continues:
\* read_wallet (on a wallet below max_records records, read without decrypting)
\* returns, and json_db holds the key of every key record that carries its
\* eight header bytes and 32 key bytes.
C19_MalformedRecordSkipped ==
    (/\ w_op = "read_wallet"
     /\ Cardinality(DOMAIN w_db) < max_records
     /\ (w_args.passphrase = <<>> \/ records_of(w_db, MKEY) = {}))
        => /\ w_ret.ok
           /\ \A key \in records_of(w_db, KEY) :
                 Len(w_db[key]) >= 40 =>
                     \E i \in 1..Len(w_json.keys) :
                         w_json.keys[i].hexsec = SubSeq(w_db[key], 9, 40)

\* C9: an import_key call that succeeds on a store that holds a key record of
\* the same public key makes no put, leaves the store as it is and returns the
\* address, so that a second import of the same WIF changes nothing; on a
\* store without such a record it puts exactly one key record and, exactly when
\* the label is non-empty, one name record under that label.
C9_ImportKeyNoOpOrAppend ==
    [][(w_op' = "import_key" /\ w_nops' = w_nops + 1 /\ w_ret'.ok) =>
          LET decoded == decoded_wif[w_args'.wif]
              public_key == private_key_to_public_key(decoded.value[1], decoded.value[2])
              label == w_args'.label
          IN /\ w_ret'.value = public_key_to_address(public_key)
             /\ IF KEY \o public_key \in DOMAIN w_db
                THEN w_puts' = <<>> /\ w_db' = w_db
                ELSE /\ Len(w_puts') = (IF label # <<>> THEN 2 ELSE 1)
                     /\ w_puts'[1] = [key |-> KEY \o public_key,
                                      value |-> <<1, 0, 0, 0, 1, 0, 0, 0>> \o decoded.value[1]]
                     /\ label # <<>> =>
                            w_puts'[2] = [key |-> NAME \o label,
                                          value |-> public_key_to_address(public_key)]
                     /\ w_db' = apply_puts(w_db, w_puts')
                     /\ records_of(w_db', KEY) = records_of(w_db, KEY) \cup {KEY \o public_key}
             /\ (w_op = "import_key" /\ w_ret.ok /\ w_args.wif = w_args'.wif) => w_db' = w_db
      ]_vars

\* a labelled second import of a key the first import of the run stored
C9_Witness ==
    /\ w_op = "import_key" /\ w_nops = 2 /\ w_ret.ok
    /\ w_puts = <<>>
    /\ w_args.label # <<>>
    /\ Cardinality(records_of(w_db, KEY)) = 2

\* C27: after import_key(wif, label) has succeeded, a read_wallet pass over
\* the same store yields a key entry with the private key of the WIF, the
\* public key import_key derived and the address it returned, and, for a
\* non-empty label, names maps that address to the label.
C27_ImportThenRead ==
    [][(w_op = "import_key" /\ w_ret.ok /\ w_op' = "read_wallet" /\ w_ret'.ok) =>
          LET decoded == decoded_wif[w_args.wif]
              public_key == private_key_to_public_key(decoded.value[1], decoded.value[2])
          IN /\ \E i \in 1..Len(w_json'.keys) :
                   /\ w_json'.keys[i].hexsec = decoded.value[1]
                   /\ w_json'.keys[i].pubkey = public_key
                   /\ w_json'.keys[i].addr = w_ret.value
             /\ w_args.label # <<>>
                   => /\ w_ret.value \in DOMAIN w_json'.names
                      /\ w_json'.names[w_ret.value] = w_args.label]_vars

\* C30: whenever open() raises WalletDBError the handler is left closed (db
\* is None), so that the next open() or read_wallet() tries to open the store
\* again; after close(), db and db_env are both None; open() on an open
\* handler changes nothing.
C30_OpenCloseState ==
    [][/\ (h_op' = "open" /\ ~h_ret'.ok) => h_db' = "None"
       /\ (h_op \in {"open", "read_wallet"} /\ ~h_ret.ok /\ h_op' \in {"open", "read_wallet"}
             /\ h_exists')
            => h_opens' = h_opens + 1
       /\ h_op' = "close" => (h_db' = "None" /\ h_db_env' = "None")
       /\ (h_op' = "open" /\ h_db = "open DB")
            => (h_db' = h_db /\ h_db_env' = h_db_env /\ h_opens' = h_opens /\ h_ret'.ok)]_vars

(***************************************************************************)
(* Properties of the key codec, continued                                  *)
(***************************************************************************)
\* C11: wif_to_private_key succeeds only if the checksum is right, the first
\* byte of the payload is the expected version and the rest is 32 bytes
\* (uncompressed) or 33 bytes ending in 0x01 (compressed); a wrong checksum is
\* reported before a wrong network, a wrong network before a wrong length.
C11_WifDecodeStrict ==
    wif_op = "decode_payload" =>
        LET rest == Tail(wif_key)
            well_formed == \/ Len(rest) = 32
                           \/ Len(rest) = 33 /\ rest[33] = 1
        IN /\ wif_out.ok =>
                /\ ~wif_mangled /\ wif_key # <<>> /\ wif_key[1] = wif_network
                /\ well_formed
                /\ wif_out.value = <<SubSeq(rest, 1, 32), Len(rest) = 33>>
           /\ wif_mangled => wif_out = Err("Invalid WIF key (checksum mismatch)")
           /\ (~wif_mangled /\ wif_key # <<>> /\ wif_key[1] # wif_network)
                => wif_out = Err("WIF key is for a different network")
           /\ (~wif_mangled /\ wif_key # <<>> /\ wif_key[1] = wif_network /\ ~well_formed)
                => ~wif_out.ok

(***************************************************************************)
(* Properties of the Base58 codec and the validators                       *)
(***************************************************************************)
\* C12: b58decode(b58encode(b)) = b for every byte string b, the empty one and
\* those made of or starting with zero bytes included.
C12_Base58RoundTrip ==
    b58_op = "b58decode" => b58_out = Ok(b58_data)

\* a string of zero bytes only, and one that starts with zero bytes
C12_Witness ==
    /\ b58_op = "b58decode"
    /\ b58_data = <<0, 0, 58>>
    /\ b58_in.str = <<"1", "1", "2", "1">>

\* C13: b58decode_check never raises: it returns the payload when the
\* checksum matches and None for every other input.
C13_DecodeCheckTotal ==
    b58_op = "b58decode_check" =>
        /\ b58_out.ok
        /\ b58_in.kind = "valid" => b58_out.value = Some(b58_in.payload)
        /\ b58_in.kind # "valid" => b58_out.value = None

\* C14: is_valid_address and is_valid_wif return a boolean for every input and
\* never raise; they return False for an empty string, a string with a
\* character outside the alphabet, a wrong checksum or an empty payload, and
\* True only when the decode succeeds: a payload with one of the network's
\* address versions, or a key that wif_to_private_key accepts for the network.
C14_ValidatorsTotal ==
    b58_op \in {"is_valid_address", "is_valid_wif"} =>
        /\ b58_out.ok /\ b58_out.value \in BOOLEAN
        /\ (b58_in.kind # "valid" \/ b58_in.payload = <<>>) => b58_out.value = FALSE
        /\ (b58_op = "is_valid_address" /\ b58_out.value) =>
                b58_in.payload[1] \in {b58_network.pubKeyHash, b58_network.scriptHash}
        /\ (b58_op = "is_valid_wif" /\ b58_out.value) =>
                /\ b58_in.payload[1] = b58_network.wif
                /\ Len(b58_in.payload) \in {33, 34}

\* a string with a foreign character and a payload without a byte were refused
C14_Witness ==
    /\ b58_op = "is_valid_wif"
    /\ b58_in.kind = "foreign character"
    /\ b58_in.payload # <<>>
    /\ b58_out = Ok(FALSE)

\* C24: is_valid_address returns True exactly for the strings that
\* Base58Check-decode to a version byte equal to the network's pubKeyHash or
\* scriptHash followed by exactly 20 bytes; a checksum-valid string with a
\* payload of any other length is reported invalid.
C24_AddressOfTwentyBytes ==
    b58_op = "is_valid_address"
        => b58_out.value =
             (\E decoded \in {b58decode_check(b58_in.str)} :
                 /\ decoded.ok
                 /\ decoded.value # None
                 /\ Len(Get(decoded.value)) = 21
                 /\ Get(decoded.value)[1] \in {b58_network.pubKeyHash, b58_network.scriptHash})

(***************************************************************************)
(* Properties of BCDataStream                                              *)
(***************************************************************************)
\* C16: read_bytes(n) fails whenever cursor + n exceeds the length of the
\* buffer, never returns fewer than n bytes, and leaves the cursor within the
\* buffer after a read that returned.
C16_ReadBytesBounded ==
    (ds_op = "read_bytes" /\ ds_input # None)
        => /\ ds_before + ds_length > Len(Get(ds_input)) => ~ds_out.ok
           /\ ds_out.ok => /\ Len(ds_out.value) = ds_length
                           /\ ds_read_cursor <= Len(Get(ds_input))

\* the unsigned little-endian integer in the width bytes after position from
RECURSIVE unsigned_at(_, _, _)
unsigned_at(input, from, width) ==
    IF width = 0 THEN 0
    ELSE input[from + 1] + 256 * unsigned_at(input, from + 1, width - 1)

\* C17: read_compact_size returns the first byte when it is below 253, and
\* otherwise the unsigned little-endian integer of the next 2, 4 or 8 bytes
\* for the markers 253, 254 and 255; the cursor advances by 1, 3, 5 or 9.
C17_CompactSize ==
    (ds_op = "read_compact_size" /\ ds_out.ok)
        => LET input == Get(ds_input)
               first == input[ds_before + 1]
               width == CASE first < 253 -> 0
                          [] first = 253 -> 2
                          [] first = 254 -> 4
                          [] first = 255 -> 8
           IN /\ ds_read_cursor = ds_before + 1 + width
              /\ ds_read_cursor <= Len(input)
              /\ ds_out.value = IF width = 0 THEN first
                                ELSE unsigned_at(input, ds_before + 1, width)

\* a two-byte size read behind a byte that an earlier read consumed
C17_Witness ==
    /\ ds_op = "read_compact_size" /\ ds_out.ok
    /\ ds_before = 1
    /\ Get(ds_input) = <<5, 253, 1, 2>>
    /\ ds_out.value = 513
    /\ ds_read_cursor = 4

====
